---- MODULE Spec2Model ----
(***************************************************************************)
(* Route resolution with cache-aside and per-key locking                   *)
(* (app/services/ors_routing.py, app/services/cache_service.py).           *)
(*                                                                         *)
(* Optional values are encoded as sequences: <<>> is None, <<v>> is v.     *)
(* One action is one stretch of a coroutine between two awaits; the        *)
(* effect of the awaited cache / lock / upstream call is placed in the     *)
(* action that issues it.                                                  *)
(***************************************************************************)
EXTENDS Integers, Sequences, FiniteSets, TLC

\* ------------------------------------------------------------ bounds
\* Number of calls of obtener_ruta_ors_por_coordenadas in one behaviour.
MaxResolutions == 2
\* Number of disturbances in one behaviour: cache / lock operations that
\* raise, and TTL expiries (cache entries, Redis lock keys).
MaxDisturbances == 1
\* Number of clients of the bare lock API, and of lock calls they make.
NumClients == 2
MaxLockCalls == 4
\* Number of concurrent callers of CacheServiceFactory, and of the get_cache /
\* reset calls they make in one behaviour.
NumCallers == 2
MaxFactoryOps == 4
\* Number of distinct route payloads in the study of copies.
MaxPayload == 4
MaxRetriesSetting == 2
NumRegistryTasks == 3
MaxConexiones == 3
MaxAttempts == 3
MaxExtraSteps == 2

\* ------------------------------------------------------------ settings
\* app/core/config.py
CACHE_TTL_SECONDS == 10800
CACHE_MAX_TTL_SECONDS == 21600
CACHE_ALWAYS_COMPRESS == TRUE
ORS_ALLOWED_PROFILES == <<"foot-walking", "driving-car", "cycling-regular">>
MAX_STEP_TEXT_LENGTH == 240
MAX_ROUTE_STEPS == 200
DEFAULT_PROFILE == "foot-walking"
\* CacheService.wait_for_value(key, attempts=10, delay=0.25)
WaitAttempts == 10

None == <<>>
Some(v) == <<v>>
IsNone(o) == o = <<>>
Val(o) == o[1]

Max(a, b) == IF a >= b THEN a ELSE b
Min(a, b) == IF a <= b THEN a ELSE b

\* ------------------------------------------------------------ inputs
\* A raw coordinate component is <<"num", n>> (a number, in degrees) or
\* <<"text", 0>> (a value float() rejects).
Num(n) == <<"num", n>>
Text == <<"text", 0>>

CoordsA == << <<Num(-110), Num(29)>>, <<Num(-111), Num(30)>> >>
CoordsVia == << <<Num(-110), Num(29)>>, <<Num(0), Num(0)>>, <<Num(-111), Num(30)>> >>
CoordsOnePoint == << <<Num(-110), Num(29)>> >>
CoordsLonRange == << <<Num(181), Num(29)>>, <<Num(-111), Num(30)>> >>

Request(c, p, t) == [coordenadas |-> c, profile |-> p, cache_ttl |-> t]

ValidRequests ==
    { Request(CoordsVia, Some(" Foot-Walking "), None),
      Request(CoordsA, Some("DRIVING-CAR"), None),
      Request(CoordsA, Some("   "), Some(0)) }

InvalidRequests ==
    { Request(CoordsOnePoint, None, None),
      Request(CoordsLonRange, None, None),
      Request(CoordsA, Some("rocket"), None) }

Requests == ValidRequests \cup InvalidRequests

\* ------------------------------------------------------------ pure functions
\* str.strip().lower() on the profile strings that occur.
StripLower(s) ==
    CASE s = " Foot-Walking " -> "foot-walking"
      [] s = "DRIVING-CAR" -> "driving-car"
      [] s = "   " -> ""
      [] s = " Rocket " -> "rocket"
      [] s = "Cycling-Regular" -> "cycling-regular"
      [] OTHER -> s

\* _validate_coordinates: <<>> when the payload is rejected (invalid_payload),
\* else the sanitized list of <<lon, lat>> numbers.
PairOk(pair) ==
    /\ Len(pair) >= 2
    /\ pair[1][1] = "num" /\ pair[2][1] = "num"
    /\ -180 <= pair[1][2] /\ pair[1][2] <= 180
    /\ -90 <= pair[2][2] /\ pair[2][2] <= 90

_validate_coordinates(coordenadas) ==
    IF Len(coordenadas) < 2 \/ \E i \in 1..Len(coordenadas) : ~PairOk(coordenadas[i])
    THEN None
    ELSE Some([i \in 1..Len(coordenadas) |-> <<coordenadas[i][1][2], coordenadas[i][2][2]>>])

normalize_allowed_profiles(allowed_profiles) ==
    LET profiles == IF IsNone(allowed_profiles) THEN ORS_ALLOWED_PROFILES ELSE Val(allowed_profiles)
        lowered == [i \in 1..Len(profiles) |-> StripLower(profiles[i])]
        NonBlank(p) == p /= ""
        normalized == SelectSeq(lowered, NonBlank)
    IN  IF normalized = <<>> THEN <<DEFAULT_PROFILE>> ELSE normalized

\* normalize_profile without the membership test of line 231.
normalize_profile_unchecked(profile, allowed_profiles) ==
    LET normalized_allowed == normalize_allowed_profiles(allowed_profiles)
    IN  IF ~IsNone(profile) /\ StripLower(Val(profile)) /= ""
        THEN Some(StripLower(Val(profile)))
        ELSE Some(normalized_allowed[1])

\* The membership test on the lower-cased profile, the profile returned as
\* it was sent.
normalize_profile_unlowered(profile, allowed_profiles) ==
    LET normalized_allowed == normalize_allowed_profiles(allowed_profiles)
        given == ~IsNone(profile) /\ StripLower(Val(profile)) /= ""
        candidate == IF given THEN StripLower(Val(profile)) ELSE normalized_allowed[1]
    IN  IF \E i \in 1..Len(normalized_allowed) : normalized_allowed[i] = candidate
        THEN Some(IF given THEN Val(profile) ELSE candidate)
        ELSE None

\* normalize_profile: <<>> when the profile is rejected (invalid_profile).
normalize_profile(profile, allowed_profiles) ==
    LET normalized_allowed == normalize_allowed_profiles(allowed_profiles)
        candidate == IF ~IsNone(profile) /\ StripLower(Val(profile)) /= ""
                     THEN StripLower(Val(profile))
                     ELSE normalized_allowed[1]
    IN  IF \E i \in 1..Len(normalized_allowed) : normalized_allowed[i] = candidate
        THEN Some(candidate)
        ELSE None

\* _format_coord_pair + _build_cache_key: the digest is modelled by the tuple
\* it hashes (variant, profile, first point, last point).
_build_cache_key(profile, coordenadas) ==
    <<"coords", profile, coordenadas[1], coordenadas[Len(coordenadas)]>>

\* A TTL resolution that forgets the configured maximum.
_resolve_cache_ttl_unclamped(override_ttl, default_ttl, max_ttl) ==
    IF IsNone(override_ttl) THEN default_ttl ELSE Max(0, Val(override_ttl))

\* _resolve_cache_ttl under given settings CACHE_TTL_SECONDS (default_ttl)
\* and CACHE_MAX_TTL_SECONDS (max_ttl); the override is an integer or None.
_resolve_cache_ttl_under(override_ttl, default_ttl, max_ttl) ==
    LET ttl == IF IsNone(override_ttl) THEN default_ttl ELSE Max(0, Val(override_ttl))
    IN  IF ttl = 0 THEN 0 ELSE Min(ttl, max_ttl)

_resolve_cache_ttl(override_ttl) ==
    _resolve_cache_ttl_under(override_ttl, CACHE_TTL_SECONDS, CACHE_MAX_TTL_SECONDS)

\* A cache test that forgets the TTL.
UsesCache_any_ttl(cache, ttl_seconds) == cache

\* Lines 755 / 766 / 769 / 804: cache is not None and ttl_seconds > 0.
UsesCache(cache, ttl_seconds) == cache /\ ttl_seconds > 0

\* _serialize_payload / _deserialize_payload: JSON text, gzip-wrapped when
\* CACHE_ALWAYS_COMPRESS; a failed gunzip falls back to the raw bytes.
_serialize_payload(payload) ==
    IF CACHE_ALWAYS_COMPRESS THEN [gzip |-> TRUE, json |-> payload]
    ELSE [gzip |-> FALSE, json |-> payload]

_deserialize_payload(raw) == raw.json

\* ------------------------------------------------------------ locks
\* SET lock:route:<key> <token> EX <ttl> without NX: the lock key is
\* overwritten and every caller gets a token.
Redis_acquire_lock_overwriting(rl, key, token) ==
    [locks |-> [rl EXCEPT ![key] = Some(token)], ret |-> Some(token)]

\* RedisCache.acquire_lock: SET lock:route:<key> <token> NX EX <ttl>.  rl maps
\* each key to None (no lock key in Redis) or Some(token).
Redis_acquire_lock(rl, key, token) ==
    IF IsNone(rl[key])
    THEN [locks |-> [rl EXCEPT ![key] = Some(token)], ret |-> Some(token)]
    ELSE [locks |-> rl, ret |-> None]

\* RedisCache.release_lock: the registered script deletes the lock key only
\* when it holds the given token.
Redis_release_lock(rl, key, token) ==
    IF rl[key] = Some(token) THEN [rl EXCEPT ![key] = None] ELSE rl

\* An asyncio.Lock: locked flag, FIFO of waiting tasks, and whether the first
\* waiter's future has been resolved by release() and not yet resumed.
NewLock == [locked |-> FALSE, waiters |-> <<>>, woken |-> FALSE]

\* SQLiteCache.acquire_lock up to the point where lock.acquire() returns or
\* suspends: get-or-create the key's lock, take it when it is free and nobody
\* waits, else queue the task.  blocked says the caller is suspended.
SQLite_acquire_lock(sl, key, task) ==
    LET lock == IF IsNone(sl[key]) THEN NewLock ELSE Val(sl[key])
    IN  IF ~lock.locked /\ lock.waiters = <<>>
        THEN [locks |-> [sl EXCEPT ![key] = Some([lock EXCEPT !.locked = TRUE])],
              ret |-> Some(key), blocked |-> FALSE]
        ELSE [locks |-> [sl EXCEPT ![key] = Some([lock EXCEPT !.waiters = Append(@, task)])],
              ret |-> None, blocked |-> TRUE]

\* The first waiter may resume once release() resolved its future.
SQLite_can_resume(sl, key, task) ==
    /\ ~IsNone(sl[key])
    /\ Val(sl[key]).waiters /= <<>>
    /\ Head(Val(sl[key]).waiters) = task
    /\ Val(sl[key]).woken

\* The rest of lock.acquire() for a resumed waiter: leave the queue, take the
\* lock; acquire_lock then returns the key as token.
SQLite_acquire_resume(sl, key) ==
    LET lock == Val(sl[key])
    IN  [sl EXCEPT ![key] = Some([locked |-> TRUE, waiters |-> Tail(lock.waiters), woken |-> FALSE])]

\* SQLiteCache.release_lock: the token is not looked at; a locked lock is
\* released and its first waiter woken, anything else is left alone.
SQLite_release_lock(sl, key, token) ==
    IF ~IsNone(sl[key]) /\ Val(sl[key]).locked
    THEN [sl EXCEPT ![key] = Some([Val(sl[key]) EXCEPT !.locked = FALSE,
                                                       !.woken = (Val(sl[key]).waiters /= <<>>)])]
    ELSE sl

\* ------------------------------------------------------------ state
VARIABLES
    backend,        \* "redis" | "sqlite": the store the factory selected
    orsConfigured,  \* ORS_API_KEY and ORS_BASE_URL are set
    store,          \* key -> None | Some(entry): routes stored in the cache
    redisLock,      \* key -> None | Some(token): lock:route:<key> in Redis
    sqliteLocks,    \* key -> None | Some(asyncio.Lock): SQLiteCache._locks
    nextToken,      \* number of uuid4 tokens drawn so far
    upstreamCalls,  \* number of requests sent to OpenRouteService
    started,        \* number of resolutions issued so far
    faults,         \* number of cache / lock operations that raised
    expiries,       \* number of TTL expiries so far
    res,            \* task -> locals of its current (or last) resolution
    clientHeld,     \* lock-API client -> set of <<key, token>> it acquired
    clientTokens,   \* lock-API client -> set of <<key, token>> it was ever given
    clientBlocked,  \* lock-API client -> None | Some(key) it is suspended on
    lockCalls,      \* number of lock-API calls made by the clients
    lastCall,       \* the latest lock-API call: arguments and what it returned
    factory,        \* CacheServiceFactory: _instance, _init_lock, the stores built, its callers
    ttlCall,        \* one resolution's TTL: the settings, the override, what set was given
    copies,         \* one resolution's objects: the heap, the cache entry, the result returned
    client,         \* one _hacer_peticion_ors call: settings, attempt, outcomes, sleeps, how it ended
    lookup,         \* one obtener_ruta_ors call: the ids, the profile, how it ended
    registry,       \* SQLiteCache._locks and _locks_guard with the tasks inside acquire_lock
    endpoint,       \* one POST /rutas/ors/coordenadas: the payload, what the operation was given, the answer
    engine,         \* one obtener_ruta call: the graph, the locals of dijkstra, the route
    overlay,        \* one obtener_ruta_ors call: the dict objects it and the cache hold
    waiter,         \* one wait_for_value call: what each get returned, the sleeps made
    parse,          \* one _procesar_respuesta_ors call: the first route, what it gives
    calc            \* one GET /rutas/{desde_id}/{hacia_id} request and its response

vars == <<backend, orsConfigured, store, redisLock, sqliteLocks, nextToken, upstreamCalls,
          started, faults, expiries, res, clientHeld, clientTokens, clientBlocked, lockCalls,
          lastCall, factory, ttlCall, copies, client, lookup, registry, endpoint, engine, overlay, waiter, parse, calc>>

cfgVars == <<backend, orsConfigured>>
lockVars == <<redisLock, sqliteLocks, nextToken>>
clientVars == <<clientHeld, clientTokens, clientBlocked, lockCalls, lastCall>>
\* The state of the parts that route resolution and the lock API leave alone.
otherVars == <<factory, ttlCall, copies, client, lookup, registry, endpoint, engine, overlay, waiter, parse, calc>>

\* The tasks of the event loop that call obtener_ruta_ors_por_coordenadas,
\* each one call after the other.
Tasks == {"t1", "t2"}
Clients == 1..NumClients

KeyOf(rq) ==
    _build_cache_key(Val(normalize_profile(rq.profile, None)), Val(_validate_coordinates(rq.coordenadas)))

Keys == {KeyOf(rq) : rq \in ValidRequests}

\* The locals of a call, with the record of what it did: id numbers the calls
\* in the order they were issued, before holds the ids of the calls that had
\* returned when this one was issued, log the operations it invoked, faulted
\* those that raised, fell_through whether wait_for_value ran out of attempts.
Idle ==
    [pc |-> "idle", id |-> 0, req |-> None, before |-> {},
     sanitized_coords |-> None, normalized_profile |-> None, ttl_seconds |-> 0,
     cache |-> FALSE, cache_key |-> None, cached_payload |-> None, lock_token |-> None, polls |-> 0,
     resultado |-> None, outcome |-> None, log |-> <<>>, faulted |-> {}, fell_through |-> FALSE]

\* was_held / holder_token: the lock of the key when the call was made;
\* is_held: the lock when the call returned or suspended.
NoCall ==
    [op |-> "none", client |-> 0, key |-> None, token |-> None, ret |-> None, blocked |-> FALSE,
     was_held |-> FALSE, holder_token |-> None, is_held |-> FALSE]

\* A call of get_cache or reset: obj is the store it is initializing or
\* closing, built the stores it constructed, entered / finished its place in
\* the order of calls and returns, after the value of _instance when it ended.
Callers == 1..NumCallers

NoFactoryCall ==
    [pc |-> "idle", op |-> "none", obj |-> None, ret |-> None, raised |-> FALSE,
     entered |-> 0, finished |-> 0, after |-> None, built |-> {}]

\* CacheServiceFactory before its first call; url says REDIS_URL is set.  objs
\* are the store objects constructed so far, named by their index.
FactoryIdle(url) ==
    [url |-> url, instance |-> None, init_lock |-> [locked |-> FALSE, waiters |-> <<>>],
     objs |-> <<>>, calls |-> [c \in Callers |-> NoFactoryCall], clock |-> 0, ops |-> 0,
     resets |-> 0]

\* The TTL of a call under settings default_ttl / max_ttl: ttl_seconds is the
\* local of line 740, set_ttl the third argument of cache.set.
TtlCall(default_ttl, max_ttl, override_ttl) ==
    [pc |-> "start", default_ttl |-> default_ttl, max_ttl |-> max_ttl, override_ttl |-> override_ttl,
     ttl_seconds |-> None, set_ttl |-> None]

NoTtlCall == TtlCall(CACHE_TTL_SECONDS, CACHE_MAX_TTL_SECONDS, None)

\* The objects of one resolution.  heap holds the dict objects by identity
\* (index -> content); kind says how the cache service keeps an entry: as
\* "bytes" (RedisCache, SQLiteCache: the serialized payload) or as "object"
\* (a cache_service passed by the caller that keeps and hands out the dict
\* itself, like the stubs of tests/test_ors_cache.py).  path is the way the
\* resolution takes, stored the content the entry was written with.
NoCopies ==
    [pc |-> "idle", kind |-> "bytes", path |-> "fresh", heap |-> <<>>, entry |-> None,
     stored |-> 0, result |-> None, later |-> None]

\* No _hacer_peticion_ors call.  outcomes is what each request sent so far
\* met, sleeps the durations given to asyncio.sleep, in quarters of a second.
NoClient ==
    [pc |-> "idle", ORS_MAX_RETRIES |-> 0, ORS_BACKOFF_FACTOR |-> 0, attempt |-> 0,
     outcomes |-> <<>>, sleeps |-> <<>>, result |-> None, error |-> None]

\* No obtener_ruta_ors call.
NoLookup ==
    [pc |-> "idle", desde_id |-> 0, hacia_id |-> 0, profile |-> None, error |-> None,
     resultado |-> None]

\* The tasks that call SQLiteCache.acquire_lock and the keys they lock.
RegistryTasks == 1 .. NumRegistryTasks
RegistryKeys == {"A", "B"}

\* A SQLiteCache nobody uses: no lock object, the guard free.
NoRegistry ==
    [guard |-> None, locks |-> [k \in RegistryKeys |-> None],
     pc |-> [t \in RegistryTasks |-> "idle"], key |-> [t \in RegistryTasks |-> "A"]]

\* The detail of an HTTPException 400 of the validation: code, and for
\* invalid_profile the allow-list and the value that was looked up in it.
ValidationDetail(code, allowed, received) ==
    [code |-> code, allowed |-> allowed, received |-> received]

\* No request to the coordinates endpoint.
NoEndpoint ==
    [pc |-> "idle", coordenadas |-> <<>>, profile |-> None, header |-> None, DEBUG |-> FALSE,
     invoked |-> FALSE, op_profile |-> None, op_allowed |-> <<>>, normalized_profile |-> None,
     cache_key |-> None, status_code |-> 0, detail |-> None]

\* The ids of the ubicaciones table of the graph engine, and an id without row.
Nodos == {1, 2, 3}
NodoIds == Nodos \cup {4}

\* No obtener_ruta call.
NoEngine ==
    [pc |-> "idle", conexiones |-> <<>>, grafo |-> <<>>, inicio |-> 0, destino |-> 0,
     distancias |-> <<>>, anterior |-> <<>>, cola |-> {}, ruta |-> None, error |-> None]

\* No obtener_ruta_ors call whose objects are followed.
NoOverlay ==
    [pc |-> "idle", kind |-> "bytes", path |-> "fresh", route |-> 0, desde_id |-> 0, hacia_id |-> 0,
     heap |-> <<>>, entry |-> None, base |-> None, result |-> None, later |-> None]

\* No wait_for_value call.  polled holds what each get returned (None for
\* a miss), slept the sum of the delays given to asyncio.sleep.
NoWaiter ==
    [pc |-> "idle", attempts |-> 0, delay |-> 0, polled |-> <<>>, slept |-> 0, result |-> None]

\* No _procesar_respuesta_ors call.
NoParse ==
    [pc |-> "idle", route |-> <<>>, raw_steps |-> <<>>, idx |-> 0, parsed_steps |-> <<>>,
     outcome |-> [kind |-> "none", resultado |-> <<>>, detail |-> ""]]

\* No request to calcular_ruta.
NoCalc == [pc |-> "idle", status_code |-> 0, detail |-> "", ruta |-> <<>>]

\* The state route resolution and the lock API start from.
ResolutionIdle ==
    /\ store = [k \in Keys |-> None]
    /\ redisLock = [k \in Keys |-> None]
    /\ sqliteLocks = [k \in Keys |-> None]
    /\ nextToken = 0
    /\ upstreamCalls = 0
    /\ started = 0
    /\ faults = 0
    /\ expiries = 0
    /\ res = [t \in Tasks |-> Idle]
    /\ clientHeld = [c \in Clients |-> {}]
    /\ clientTokens = [c \in Clients |-> {}]
    /\ clientBlocked = [c \in Clients |-> None]
    /\ lockCalls = 0
    /\ lastCall = NoCall

Init ==
    /\ backend \in {"redis", "sqlite"}
    /\ orsConfigured \in BOOLEAN
    /\ ResolutionIdle
    /\ calc = NoCalc
    /\ parse = NoParse
    /\ waiter = NoWaiter
    /\ overlay = NoOverlay
    /\ engine = NoEngine
    /\ endpoint = NoEndpoint
    /\ registry = NoRegistry
    /\ lookup = NoLookup
    /\ factory = FactoryIdle(backend = "redis")
    /\ ttlCall = NoTtlCall
    /\ copies = NoCopies
    /\ client = NoClient

\* ------------------------------------------------------------ cache store
\* An entry as the backend keeps it: payload bytes, the TTL it was stored with
\* and, for the SQLite row, whether expires_at has passed.
Entry(payload, ttl) == [raw |-> _serialize_payload(payload), ttl |-> ttl, expired |-> FALSE]

\* A get that does not look at expires_at.
Cache_get_stale(st, key) ==
    IF IsNone(st[key]) THEN None ELSE Some(_deserialize_payload(Val(st[key]).raw))

\* RedisCache.get / SQLiteCache.get: the value returned.
Cache_get(st, key) ==
    IF IsNone(st[key]) \/ Val(st[key]).expired
    THEN None
    ELSE Some(_deserialize_payload(Val(st[key]).raw))

\* SQLiteCache.get deletes a row whose expires_at has passed; RedisCache.get
\* leaves the store alone (Redis evicts by itself).
Cache_get_effect(st, key) ==
    IF ~IsNone(st[key]) /\ Val(st[key]).expired THEN [st EXCEPT ![key] = None] ELSE st

\* A set whose write is lost.
Cache_set_lost(st, key, payload, ttl) == st

\* RedisCache.set / SQLiteCache.set: upsert with expiry.
Cache_set(st, key, payload, ttl) == [st EXCEPT ![key] = Some(Entry(payload, ttl))]

\* ------------------------------------------------------------ resolution
Ok(payload) == [kind |-> "ok", value |-> payload]
Err(code) == [kind |-> "error", value |-> code]

\* A cache or lock operation may raise while the disturbance budget lasts.
MayFault == faults + expiries < MaxDisturbances

\* Lines 755 / 766 / 769 / 804: the cache is used for this call.
CacheEnabled(t) == UsesCache(res[t].cache, res[t].ttl_seconds)

\* The call has returned or raised.
Return(rec, outcome) == [rec EXCEPT !.pc = "done", !.outcome = Some(outcome), !.polls = 0]

\* A value read from the cache that is not returned: the call goes on to
\* the lock.
Hit_missed(rec, payload) == [rec EXCEPT !.cached_payload = Some(payload), !.pc = "acquire"]

\* Lines 758-761 and 774-777: cached_payload is not None, its deep copy is
\* returned.
Hit(rec, payload) == Return([rec EXCEPT !.cached_payload = Some(payload)], Ok(payload))

\* A handler that lets the cache error out of the function.
Swallow_reraising(rec, op, next) ==
    Return([rec EXCEPT !.faulted = @ \cup {op}], Err("cache_error"))

\* The handlers of lines 762-764 and 778-780 (except Exception: warning): the
\* error of operation op is logged and the call goes on at stage next.
Swallow(rec, op, next) == [rec EXCEPT !.faulted = @ \cup {op}, !.pc = next]

\* obtener_ruta_ors_por_coordenadas, lines 737-757, up to the await of
\* cache.get: validation, TTL, profile, CacheServiceFactory.get_cache() (a
\* failure of which leaves the call without cache) and the cache key.
Start(t, rq) ==
    /\ res[t].pc \in {"idle", "done"}
    /\ started < MaxResolutions
    /\ t = "t2" => res["t1"].pc /= "idle"
    /\ \E raised \in {FALSE} \cup {f \in {TRUE} : MayFault} :
        LET sanitized == _validate_coordinates(rq.coordenadas)
            ttl == _resolve_cache_ttl(rq.cache_ttl)
            profile == normalize_profile(rq.profile, None)
            base == [Idle EXCEPT !.id = started + 1, !.req = Some(rq),
                                 !.before = {res[u].id : u \in {u \in Tasks : res[u].pc = "done"}}]
            valid == [base EXCEPT !.sanitized_coords = sanitized, !.ttl_seconds = ttl,
                                  !.normalized_profile = profile, !.cache = ~raised,
                                  !.log = <<"get_cache">>,
                                  !.faulted = IF raised THEN {"get_cache"} ELSE {}]
        IN  /\ raised => ~IsNone(sanitized) /\ ~IsNone(profile)
            /\ faults' = IF raised THEN faults + 1 ELSE faults
            /\ res' = [res EXCEPT ![t] =
                 CASE IsNone(sanitized) -> Return(base, Err("invalid_payload"))
                   [] ~IsNone(sanitized) /\ IsNone(profile) -> Return(base, Err("invalid_profile"))
                   [] OTHER ->
                        IF UsesCache(~raised, ttl)
                        THEN [valid EXCEPT !.pc = "get",
                                           !.cache_key = Some(_build_cache_key(Val(profile), Val(sanitized)))]
                        ELSE [valid EXCEPT !.pc = "upstream"]]
    /\ started' = started + 1
    /\ UNCHANGED <<cfgVars, otherVars, store, lockVars, upstreamCalls, expiries, clientVars>>

\* Lines 758-767: cache.get; a hit returns a deep copy, a miss or a read
\* error goes on to the lock (the key is rebuilt after a read error).
CacheGet(t) ==
    /\ res[t].pc = "get"
    /\ LET key == Val(res[t].cache_key)
           rec == [res[t] EXCEPT !.log = Append(@, "get")]
       IN  \/ /\ ~IsNone(Cache_get(store, key))
              /\ res' = [res EXCEPT ![t] = Hit(rec, Val(Cache_get(store, key)))]
              /\ store' = IF backend = "sqlite" THEN Cache_get_effect(store, key) ELSE store
              /\ UNCHANGED faults
           \/ /\ IsNone(Cache_get(store, key))
              /\ res' = [res EXCEPT ![t] = [rec EXCEPT !.pc = "acquire"]]
              /\ store' = IF backend = "sqlite" THEN Cache_get_effect(store, key) ELSE store
              /\ UNCHANGED faults
           \/ /\ MayFault
              /\ res' = [res EXCEPT ![t] = Swallow(rec, "get", "acquire")]
              /\ faults' = faults + 1
              /\ UNCHANGED store
    /\ UNCHANGED <<cfgVars, otherVars, lockVars, upstreamCalls, started, expiries, clientVars>>

\* Lines 769-780 on Redis: acquire_lock with a fresh uuid4 token; when the
\* lock is taken the call goes on to wait_for_value; an error of the lock call
\* is logged and the call goes on without lock.
AcquireLockRedis(t) ==
    /\ res[t].pc = "acquire"
    /\ backend = "redis"
    /\ LET key == Val(res[t].cache_key)
           got == Redis_acquire_lock(redisLock, key, nextToken + 1)
           rec == [res[t] EXCEPT !.log = Append(@, "acquire_lock")]
       IN  \/ /\ redisLock' = got.locks
              /\ nextToken' = nextToken + 1
              /\ res' = [res EXCEPT ![t] =
                           IF IsNone(got.ret)
                           THEN [rec EXCEPT !.log = Append(@, "wait_for_value"), !.pc = "wait"]
                           ELSE [rec EXCEPT !.lock_token = got.ret, !.pc = "upstream"]]
              /\ UNCHANGED faults
           \/ /\ MayFault
              /\ res' = [res EXCEPT ![t] = Swallow([rec EXCEPT !.lock_token = None], "acquire_lock", "upstream")]
              /\ faults' = faults + 1
              /\ UNCHANGED <<redisLock, nextToken>>
    /\ UNCHANGED <<cfgVars, otherVars, store, sqliteLocks, upstreamCalls, started, expiries, clientVars>>

\* Lines 769-771 on SQLite: acquire_lock awaits lock.acquire(), which takes a
\* free lock at once and suspends the caller on a held one.
AcquireLockSQLite(t) ==
    /\ res[t].pc = "acquire"
    /\ backend = "sqlite"
    /\ LET key == Val(res[t].cache_key)
           got == SQLite_acquire_lock(sqliteLocks, key, t)
       IN  /\ sqliteLocks' = got.locks
           /\ res' = [res EXCEPT ![t].log = Append(@, "acquire_lock"),
                                 ![t].lock_token = got.ret,
                                 ![t].pc = IF got.blocked THEN "blocked" ELSE "upstream"]
    /\ UNCHANGED <<cfgVars, otherVars, store, redisLock, nextToken, upstreamCalls, started, faults, expiries,
                   clientVars>>

\* The suspended lock.acquire() of SQLiteCache.acquire_lock resumes: the lock
\* is taken and the key returned as token.
AcquireResume(t) ==
    /\ res[t].pc = "blocked"
    /\ LET key == Val(res[t].cache_key)
       IN  /\ SQLite_can_resume(sqliteLocks, key, t)
           /\ sqliteLocks' = SQLite_acquire_resume(sqliteLocks, key)
           /\ res' = [res EXCEPT ![t].lock_token = Some(key), ![t].pc = "upstream"]
    /\ UNCHANGED <<cfgVars, otherVars, store, redisLock, nextToken, upstreamCalls, started, faults, expiries,
                   clientVars>>

\* Lines 774-780 with CacheService.wait_for_value: one iteration of its loop
\* (get, then sleep).  A value ends the call with a deep copy of it; after
\* WaitAttempts misses, or on an error, the call goes on without lock.
WaitPoll(t) ==
    /\ res[t].pc = "wait"
    /\ LET key == Val(res[t].cache_key)
       IN  \/ /\ ~IsNone(Cache_get(store, key))
              /\ res' = [res EXCEPT ![t] = Hit(res[t], Val(Cache_get(store, key)))]
              /\ UNCHANGED faults
           \/ /\ IsNone(Cache_get(store, key))
              /\ res' = [res EXCEPT ![t] =
                           IF res[t].polls + 1 >= WaitAttempts
                           THEN [res[t] EXCEPT !.polls = 0, !.fell_through = TRUE, !.pc = "upstream"]
                           ELSE [res[t] EXCEPT !.polls = @ + 1]]
              /\ UNCHANGED faults
           \/ /\ MayFault
              /\ res' = [res EXCEPT ![t] = Swallow([res[t] EXCEPT !.polls = 0, !.lock_token = None],
                                                   "wait_for_value", "upstream")]
              /\ faults' = faults + 1
    /\ store' = IF backend = "sqlite" THEN Cache_get_effect(store, Val(res[t].cache_key)) ELSE store
    /\ UNCHANGED <<cfgVars, otherVars, lockVars, upstreamCalls, started, expiries, clientVars>>

\* The normalized route of lines 793-802.  ver stands for the content of the
\* provider's answer, which may differ from one request to the next.
Resultado(t, ver) ==
    [origen |-> Val(res[t].sanitized_coords)[1],
     destino |-> Val(res[t].sanitized_coords)[Len(Val(res[t].sanitized_coords))],
     perfil |-> Val(res[t].normalized_profile),
     ver |-> ver]

\* A failure handler that stores what it has under the call's key.
AfterFailure_cached(rec, code) ==
    IF rec.cache /\ rec.ttl_seconds > 0 /\ ~IsNone(rec.cache_key)
    THEN [rec EXCEPT !.outcome = Some(Err(code)),
                     !.resultado = Some([origen |-> Val(rec.sanitized_coords)[1],
                                         destino |-> Val(rec.sanitized_coords)[Len(Val(rec.sanitized_coords))],
                                         perfil |-> Val(rec.normalized_profile),
                                         ver |-> 0]),
                     !.pc = "set"]
    ELSE Return(rec, Err(code))

\* Lines 782-793 have no handler around them: an exception of the client's
\* construction, of the request or of the normalization leaves the function
\* at once, with whatever the call holds.
AfterFailure(rec, code) == Return(rec, Err(code))

\* A successful call with a lock token that goes to release_lock without
\* writing the entry.
AfterNormalize_unwritten(rec, resultado) ==
    IF UsesCache(rec.cache, rec.ttl_seconds) /\ ~IsNone(rec.cache_key)
    THEN [rec EXCEPT !.resultado = Some(resultado),
                     !.pc = IF IsNone(rec.lock_token) THEN "set" ELSE "release"]
    ELSE Return([rec EXCEPT !.resultado = Some(resultado)], Ok(resultado))

\* Lines 794-804 and 823-824: with the cache in use the result goes to
\* cache.set, else its deep copy is returned.
AfterNormalize(rec, resultado) ==
    IF UsesCache(rec.cache, rec.ttl_seconds) /\ ~IsNone(rec.cache_key)
    THEN [rec EXCEPT !.resultado = Some(resultado), !.pc = "set"]
    ELSE Return([rec EXCEPT !.resultado = Some(resultado)], Ok(resultado))

\* Lines 782-802: ORSService(), _hacer_peticion_ors, _procesar_respuesta_ors.
\* Each of the three may raise; the exception leaves the function from here.
\* After them, line 804 goes to cache.set when the cache is in use.
Upstream(t) ==
    /\ res[t].pc = "upstream"
    /\ \/ /\ ~orsConfigured
          /\ res' = [res EXCEPT ![t] = AfterFailure(res[t], "ors_config")]
          /\ UNCHANGED upstreamCalls
       \/ /\ orsConfigured
          /\ upstreamCalls' = upstreamCalls + 1
          /\ LET called == [res[t] EXCEPT !.log = Append(@, "upstream")]
                 answered == [called EXCEPT !.log = Append(@, "normalize")]
                 resultado == Resultado(t, upstreamCalls + 1)
             IN  \/ res' = [res EXCEPT ![t] = AfterFailure(called, "ors_error")]
                 \/ res' = [res EXCEPT ![t] = AfterFailure(answered, "ors_response")]
                 \/ res' = [res EXCEPT ![t] = AfterNormalize(answered, resultado)]
    /\ UNCHANGED <<cfgVars, otherVars, store, lockVars, started, faults, expiries, clientVars>>

\* release_lock is called whether or not the call has a token.
AfterSet_always(r) == [r EXCEPT !.pc = "release"]

\* Lines 810-812: finally: if lock_token is not None, release_lock.
AfterSet(r) ==
    IF ~IsNone(r.lock_token) THEN [r EXCEPT !.pc = "release"] ELSE Return(r, Ok(Val(r.resultado)))

\* Lines 804-811: cache.set; an error is logged and swallowed.  Without lock
\* token the call returns the deep copy of its result from here.
CacheSet(t) ==
    /\ res[t].pc = "set"
    /\ LET rec == [res[t] EXCEPT !.log = Append(@, "set")]
           Go(r) == AfterSet(r)
       IN  \/ /\ store' = Cache_set(store, Val(res[t].cache_key), Val(res[t].resultado), res[t].ttl_seconds)
              /\ res' = [res EXCEPT ![t] = Go(rec)]
              /\ UNCHANGED faults
           \/ /\ MayFault
              /\ res' = [res EXCEPT ![t] = Go([rec EXCEPT !.faulted = @ \cup {"set"}])]
              /\ faults' = faults + 1
              /\ UNCHANGED store
    /\ UNCHANGED <<cfgVars, otherVars, lockVars, upstreamCalls, started, expiries, clientVars>>

\* Lines 811-815 and 823-824: release_lock with the call's token, then the
\* deep copy of the result is returned.  A failing Redis script is swallowed
\* inside release_lock and leaves the lock to its TTL.
ReleaseLock(t) ==
    /\ res[t].pc = "release"
    /\ LET key == Val(res[t].cache_key)
           token == Val(res[t].lock_token)
           rec == [res[t] EXCEPT !.log = Append(@, "release_lock")]
       IN  \/ /\ backend = "redis"
              /\ redisLock' = Redis_release_lock(redisLock, key, token)
              /\ UNCHANGED <<sqliteLocks, faults>>
              /\ res' = [res EXCEPT ![t] = Return(rec, Ok(Val(rec.resultado)))]
           \/ /\ backend = "redis"
              /\ MayFault
              /\ faults' = faults + 1
              /\ UNCHANGED <<redisLock, sqliteLocks>>
              /\ res' = [res EXCEPT ![t] = Return([rec EXCEPT !.faulted = @ \cup {"release_lock"}],
                                                  Ok(Val(rec.resultado)))]
           \/ /\ backend = "sqlite"
              /\ sqliteLocks' = SQLite_release_lock(sqliteLocks, key, token)
              /\ UNCHANGED <<redisLock, faults>>
              /\ res' = [res EXCEPT ![t] = Return(rec, Ok(Val(rec.resultado)))]
    /\ UNCHANGED <<cfgVars, otherVars, store, nextToken, upstreamCalls, started, expiries, clientVars>>

\* ------------------------------------------------------------ time
\* An entry outlives its TTL: Redis evicts it, the SQLite row stays until the
\* next get of its key.
ExpireEntry(k) ==
    /\ faults + expiries < MaxDisturbances
    /\ ~IsNone(store[k]) /\ ~Val(store[k]).expired
    /\ store' = IF backend = "redis" THEN [store EXCEPT ![k] = None]
                ELSE [store EXCEPT ![k] = Some([Val(store[k]) EXCEPT !.expired = TRUE])]
    /\ expiries' = expiries + 1
    /\ UNCHANGED <<cfgVars, otherVars, lockVars, upstreamCalls, started, faults, res, clientVars>>

\* A Redis lock key outlives CACHE_LOCK_TIMEOUT_SECONDS and is evicted,
\* whatever its holder is doing.
ExpireLock(k) ==
    /\ faults + expiries < MaxDisturbances
    /\ backend = "redis"
    /\ ~IsNone(redisLock[k])
    /\ redisLock' = [redisLock EXCEPT ![k] = None]
    /\ clientHeld' = [c \in Clients |-> clientHeld[c] \ {<<k, Val(redisLock[k])>>}]
    /\ expiries' = expiries + 1
    /\ UNCHANGED <<cfgVars, otherVars, store, sqliteLocks, nextToken, upstreamCalls, started, faults, res,
                   clientTokens, clientBlocked, lockCalls, lastCall>>

\* ------------------------------------------------------------ lock API
\* Callers of acquire_lock / release_lock on the selected backend.  A caller
\* passes release_lock a token it was given earlier (still valid or not) or
\* a value that is no token of the key.
resVars == <<store, upstreamCalls, started, faults, res>>

HeldIn(rl, sl, k) ==
    IF backend = "redis" THEN ~IsNone(rl[k])
    ELSE ~IsNone(sl[k]) /\ Val(sl[k]).locked

LockHeld(k) == HeldIn(redisLock, sqliteLocks, k)

\* The token acquire_lock returned to the current holder of the key's lock.
HolderToken(k) ==
    IF ~LockHeld(k) THEN None
    ELSE IF backend = "redis" THEN redisLock[k] ELSE Some(k)

Call(op, c, k, token, ret, blocked, rl, sl) ==
    [op |-> op, client |-> c, key |-> Some(k), token |-> token, ret |-> ret, blocked |-> blocked,
     was_held |-> LockHeld(k), holder_token |-> HolderToken(k), is_held |-> HeldIn(rl, sl, k)]

NoToken == IF backend = "redis" THEN 0 ELSE <<"no-token">>

\* RedisCache.acquire_lock / SQLiteCache.acquire_lock called by client c.
ClientAcquire(c, k) ==
    /\ lockCalls < MaxLockCalls
    /\ IsNone(clientBlocked[c])
    /\ lockCalls' = lockCalls + 1
    /\ \/ /\ backend = "redis"
          /\ LET got == Redis_acquire_lock(redisLock, k, nextToken + 1)
             IN  /\ redisLock' = got.locks
                 /\ nextToken' = nextToken + 1
                 /\ clientHeld' = IF IsNone(got.ret) THEN clientHeld
                                  ELSE [clientHeld EXCEPT ![c] = @ \cup {<<k, Val(got.ret)>>}]
                 /\ clientTokens' = IF IsNone(got.ret) THEN clientTokens
                                    ELSE [clientTokens EXCEPT ![c] = @ \cup {<<k, Val(got.ret)>>}]
                 /\ lastCall' = Call("acquire_lock", c, k, None, got.ret, FALSE, got.locks, sqliteLocks)
          /\ UNCHANGED <<sqliteLocks, clientBlocked>>
       \/ /\ backend = "sqlite"
          /\ LET got == SQLite_acquire_lock(sqliteLocks, k, c)
             IN  /\ sqliteLocks' = got.locks
                 /\ clientBlocked' = IF got.blocked THEN [clientBlocked EXCEPT ![c] = Some(k)]
                                     ELSE clientBlocked
                 /\ clientHeld' = IF got.blocked THEN clientHeld
                                  ELSE [clientHeld EXCEPT ![c] = @ \cup {<<k, Val(got.ret)>>}]
                 /\ clientTokens' = IF got.blocked THEN clientTokens
                                    ELSE [clientTokens EXCEPT ![c] = @ \cup {<<k, Val(got.ret)>>}]
                 /\ lastCall' = Call("acquire_lock", c, k, None, got.ret, got.blocked, redisLock, got.locks)
          /\ UNCHANGED <<redisLock, nextToken>>
    /\ UNCHANGED <<cfgVars, otherVars, resVars, expiries>>

\* The suspended SQLiteCache.acquire_lock of client c returns.
ClientResume(c) ==
    /\ ~IsNone(clientBlocked[c])
    /\ LET k == Val(clientBlocked[c])
       IN  /\ SQLite_can_resume(sqliteLocks, k, c)
           /\ sqliteLocks' = SQLite_acquire_resume(sqliteLocks, k)
           /\ clientHeld' = [clientHeld EXCEPT ![c] = @ \cup {<<k, k>>}]
           /\ clientTokens' = [clientTokens EXCEPT ![c] = @ \cup {<<k, k>>}]
           /\ lastCall' = [lastCall EXCEPT !.op = "acquire_lock", !.client = c, !.key = Some(k),
                                           !.token = None, !.ret = Some(k), !.blocked = TRUE,
                                           !.is_held = TRUE]
    /\ clientBlocked' = [clientBlocked EXCEPT ![c] = None]
    /\ UNCHANGED <<cfgVars, otherVars, resVars, expiries, redisLock, nextToken, lockCalls>>

\* RedisCache.release_lock / SQLiteCache.release_lock called by client c.
ClientRelease(c, k, token) ==
    /\ lockCalls < MaxLockCalls
    /\ IsNone(clientBlocked[c])
    /\ lockCalls' = lockCalls + 1
    /\ \/ /\ backend = "redis"
          /\ redisLock' = Redis_release_lock(redisLock, k, token)
          /\ UNCHANGED sqliteLocks
       \/ /\ backend = "sqlite"
          /\ sqliteLocks' = SQLite_release_lock(sqliteLocks, k, token)
          /\ UNCHANGED redisLock
    /\ clientHeld' = [clientHeld EXCEPT ![c] = @ \ {<<k, token>>}]
    /\ lastCall' = Call("release_lock", c, k, Some(token), None, FALSE,
                         Redis_release_lock(redisLock, k, token), SQLite_release_lock(sqliteLocks, k, token))
    /\ UNCHANGED <<cfgVars, otherVars, resVars, expiries, nextToken, clientTokens, clientBlocked>>

TokensOf(c, k) == {kt[2] : kt \in {x \in clientTokens[c] : x[1] = k}} \cup {NoToken}

NextLock ==
    \/ \E c \in Clients, k \in Keys : ClientAcquire(c, k)
    \/ \E c \in Clients : ClientResume(c)
    \/ \E c \in Clients, k \in Keys : \E token \in TokensOf(c, k) : ClientRelease(c, k, token)
    \/ \E k \in Keys : ExpireLock(k)

SpecLock == Init /\ [][NextLock]_vars

\* ------------------------------------------------------------ factory
\* CacheServiceFactory.get_cache and reset, called concurrently.  One action
\* is one stretch between two awaits.
StoreObj(kind) == [kind |-> kind, initialized |-> FALSE, closing |-> FALSE, closed |-> FALSE]

FactoryReturn(call, ret, raised, now, instance) ==
    [call EXCEPT !.pc = "done", !.ret = ret, !.raised = raised, !.finished = now,
                 !.after = instance, !.obj = None]

\* Leaving `async with cls._init_lock`.
InitLockRelease(lock) == [lock EXCEPT !.locked = FALSE]

\* Line 222: the check before the lock.
FirstCheck(instance) == ~IsNone(instance)

SecondCheck_skipped(instance) == FALSE

\* Line 226: the check repeated under the lock.
SecondCheck(instance) == ~IsNone(instance)

UseRedis_always(url) == TRUE

\* Line 229: if settings.REDIS_URL.
UseRedis(url) == url

\* reset clearing the singleton only after a close that did not raise.
ResetClear_on_success(raised, instance) == IF raised THEN instance ELSE None

\* Lines 246-249: try: await close() finally: cls._instance = None.
ResetClear(raised, instance) == None

\* get_cache, lines 221-225: return the instance when there is one, else
\* enter `async with cls._init_lock`, at once when the lock is free and
\* nobody waits for it.
GetCacheEnter(c) ==
    /\ factory.calls[c].pc \in {"idle", "done"}
    /\ factory.ops < MaxFactoryOps
    /\ LET now == factory.clock + 1
           call == [NoFactoryCall EXCEPT !.op = "get_cache", !.entered = now]
           f == [factory EXCEPT !.clock = now, !.ops = @ + 1]
       IN  factory' =
             IF FirstCheck(factory.instance)
             THEN [f EXCEPT !.calls[c] = FactoryReturn(call, factory.instance, FALSE, now, factory.instance)]
             ELSE IF ~factory.init_lock.locked /\ factory.init_lock.waiters = <<>>
             THEN [f EXCEPT !.init_lock.locked = TRUE, !.calls[c] = [call EXCEPT !.pc = "in_lock"]]
             ELSE [f EXCEPT !.init_lock.waiters = Append(@, c), !.calls[c] = [call EXCEPT !.pc = "wait_lock"]]
    /\ UNCHANGED <<cfgVars, lockVars, resVars, expiries, clientVars, ttlCall, copies, client, lookup, registry, endpoint, engine, overlay, waiter, parse, calc>>

\* The first waiter of _init_lock takes the released lock.
GetCacheLocked(c) ==
    /\ factory.calls[c].pc = "wait_lock"
    /\ ~factory.init_lock.locked
    /\ Head(factory.init_lock.waiters) = c
    /\ factory' = [factory EXCEPT !.init_lock = [locked |-> TRUE, waiters |-> Tail(@.waiters)],
                                   !.calls[c].pc = "in_lock"]
    /\ UNCHANGED <<cfgVars, lockVars, resVars, expiries, clientVars, ttlCall, copies, client, lookup, registry, endpoint, engine, overlay, waiter, parse, calc>>

\* Lines 226-232 / 238-239 under the lock: the second check, then the
\* construction of the store whose initialize() is awaited next.
GetCacheInLock(c) ==
    /\ factory.calls[c].pc = "in_lock"
    /\ LET now == factory.clock + 1
           id == Len(factory.objs) + 1
           kind == IF UseRedis(factory.url) THEN "redis" ELSE "sqlite"
       IN  factory' =
             IF SecondCheck(factory.instance)
             THEN [factory EXCEPT !.clock = now,
                                  !.init_lock = InitLockRelease(@),
                                  !.calls[c] = FactoryReturn(@, factory.instance, FALSE, now, factory.instance)]
             ELSE [factory EXCEPT !.objs = Append(@, StoreObj(kind)),
                                  !.calls[c].obj = Some(id),
                                  !.calls[c].built = @ \cup {id},
                                  !.calls[c].pc = IF kind = "redis" THEN "init_redis" ELSE "init_sqlite"]
    /\ UNCHANGED <<cfgVars, lockVars, resVars, expiries, clientVars, ttlCall, copies, client, lookup, registry, endpoint, engine, overlay, waiter, parse, calc>>

\* Lines 232-239: RedisCache.initialize() returns (ping answered) and the
\* store becomes the instance, or raises: a warning, and SQLiteCache is
\* constructed instead.
GetCacheInitRedis(c) ==
    /\ factory.calls[c].pc = "init_redis"
    /\ LET now == factory.clock + 1
           id == Val(factory.calls[c].obj)
           next == Len(factory.objs) + 1
       IN  \/ factory' = [factory EXCEPT !.clock = now,
                                         !.objs[id].initialized = TRUE,
                                         !.instance = Some(id),
                                         !.init_lock = InitLockRelease(@),
                                         !.calls[c] = FactoryReturn(@, Some(id), FALSE, now, Some(id))]
           \/ factory' = [factory EXCEPT !.objs = Append(@, StoreObj("sqlite")),
                                         !.calls[c].obj = Some(next),
                                         !.calls[c].built = @ \cup {next},
                                         !.calls[c].pc = "init_sqlite"]
    /\ UNCHANGED <<cfgVars, lockVars, resVars, expiries, clientVars, ttlCall, copies, client, lookup, registry, endpoint, engine, overlay, waiter, parse, calc>>

\* Lines 239-242: SQLiteCache.initialize() returns and the store becomes the
\* instance, or raises, and the exception leaves get_cache through the lock.
GetCacheInitSQLite(c) ==
    /\ factory.calls[c].pc = "init_sqlite"
    /\ LET now == factory.clock + 1
           id == Val(factory.calls[c].obj)
       IN  \/ factory' = [factory EXCEPT !.clock = now,
                                         !.objs[id].initialized = TRUE,
                                         !.instance = Some(id),
                                         !.init_lock = InitLockRelease(@),
                                         !.calls[c] = FactoryReturn(@, Some(id), FALSE, now, Some(id))]
           \/ factory' = [factory EXCEPT !.clock = now,
                                         !.init_lock = InitLockRelease(@),
                                         !.calls[c] = FactoryReturn(@, None, TRUE, now, factory.instance)]
    /\ UNCHANGED <<cfgVars, lockVars, resVars, expiries, clientVars, ttlCall, copies, client, lookup, registry, endpoint, engine, overlay, waiter, parse, calc>>

\* reset, lines 245-247: nothing to do without instance; else close() of the
\* instance is started and awaited.
ResetEnter(c) ==
    /\ factory.calls[c].pc \in {"idle", "done"}
    /\ factory.ops < MaxFactoryOps
    /\ LET now == factory.clock + 1
           call == [NoFactoryCall EXCEPT !.op = "reset", !.entered = now]
           f == [factory EXCEPT !.clock = now, !.ops = @ + 1, !.resets = @ + 1]
       IN  factory' =
             IF IsNone(factory.instance)
             THEN [f EXCEPT !.calls[c] = FactoryReturn(call, None, FALSE, now, factory.instance)]
             ELSE [f EXCEPT !.objs[Val(factory.instance)].closing = TRUE,
                            !.calls[c] = [call EXCEPT !.obj = factory.instance, !.pc = "closing"]]
    /\ UNCHANGED <<cfgVars, lockVars, resVars, expiries, clientVars, ttlCall, copies, client, lookup, registry, endpoint, engine, overlay, waiter, parse, calc>>

\* reset, lines 247-249: close() returns or raises; the finally clause clears
\* _instance either way, and an exception of close() leaves reset.
ResetClose(c) ==
    /\ factory.calls[c].pc = "closing"
    /\ \E raised \in BOOLEAN :
        LET now == factory.clock + 1
            id == Val(factory.calls[c].obj)
            cleared == ResetClear(raised, factory.instance)
        IN  factory' = [factory EXCEPT !.clock = now,
                                       !.objs[id].closed = @ \/ ~raised,
                                       !.instance = cleared,
                                       !.calls[c] = [FactoryReturn(@, None, raised, now, cleared)
                                                        EXCEPT !.obj = factory.calls[c].obj]]
    /\ UNCHANGED <<cfgVars, lockVars, resVars, expiries, clientVars, ttlCall, copies, client, lookup, registry, endpoint, engine, overlay, waiter, parse, calc>>

InitFactory ==
    /\ backend = "sqlite"
    /\ orsConfigured = TRUE
    /\ ResolutionIdle
    /\ calc = NoCalc
    /\ parse = NoParse
    /\ waiter = NoWaiter
    /\ overlay = NoOverlay
    /\ engine = NoEngine
    /\ endpoint = NoEndpoint
    /\ registry = NoRegistry
    /\ lookup = NoLookup
    /\ factory \in {FactoryIdle(url) : url \in BOOLEAN}
    /\ ttlCall = NoTtlCall
    /\ copies = NoCopies
    /\ client = NoClient

NextFactory ==
    \/ \E c \in Callers : GetCacheEnter(c)
    \/ \E c \in Callers : GetCacheLocked(c)
    \/ \E c \in Callers : GetCacheInLock(c)
    \/ \E c \in Callers : GetCacheInitRedis(c)
    \/ \E c \in Callers : GetCacheInitSQLite(c)
    \/ \E c \in Callers : ResetEnter(c)
    \/ \E c \in Callers : ResetClose(c)

SpecFactory == InitFactory /\ [][NextFactory]_vars

\* ------------------------------------------------------------ TTL
\* The TTL of one resolution with a cache and a successful upstream answer,
\* under every combination of settings and override.
TtlSettings == {-5, 0, 10, 60, 21600}
TtlOverrides == {None} \cup {Some(n) : n \in {-5, 0, 1, 10, 60, 61, 9999}}

\* Line 740: ttl_seconds = _resolve_cache_ttl(cache_ttl).
TtlResolve ==
    /\ ttlCall.pc = "start"
    /\ ttlCall' = [ttlCall EXCEPT !.pc = "resolved",
                                   !.ttl_seconds = Some(_resolve_cache_ttl_under(ttlCall.override_ttl,
                                                                                 ttlCall.default_ttl,
                                                                                 ttlCall.max_ttl))]
    /\ UNCHANGED <<cfgVars, lockVars, resVars, expiries, clientVars, factory, copies, client, lookup, registry, endpoint, engine, overlay, waiter, parse, calc>>

\* Lines 804-806: cache.set(cache_key, resultado, ttl_seconds) when the
\* cache is in use; the call is skipped otherwise.
TtlSet ==
    /\ ttlCall.pc = "resolved"
    /\ ttlCall' = IF UsesCache(TRUE, Val(ttlCall.ttl_seconds))
                  THEN [ttlCall EXCEPT !.pc = "set", !.set_ttl = ttlCall.ttl_seconds]
                  ELSE [ttlCall EXCEPT !.pc = "skipped"]
    /\ UNCHANGED <<cfgVars, lockVars, resVars, expiries, clientVars, factory, copies, client, lookup, registry, endpoint, engine, overlay, waiter, parse, calc>>

InitTtl ==
    /\ backend = "sqlite"
    /\ orsConfigured = TRUE
    /\ ResolutionIdle
    /\ calc = NoCalc
    /\ parse = NoParse
    /\ waiter = NoWaiter
    /\ overlay = NoOverlay
    /\ engine = NoEngine
    /\ endpoint = NoEndpoint
    /\ registry = NoRegistry
    /\ lookup = NoLookup
    /\ factory = FactoryIdle(FALSE)
    /\ ttlCall \in {TtlCall(d, m, o) : d \in TtlSettings, m \in TtlSettings, o \in TtlOverrides}
    /\ copies = NoCopies
    /\ client = NoClient

NextTtl == TtlResolve \/ TtlSet

SpecTtl == InitTtl /\ [][NextTtl]_vars

\* ------------------------------------------------------------ copies
\* What a resolution returns and what the cache keeps, as objects.
Payloads == 1..MaxPayload

\* A new dict object with the given content.
Alloc(heap, content) == [heap |-> Append(heap, content), id |-> Len(heap) + 1]

\* Returning the object itself.
deepcopy_shared(heap, id) == [heap |-> heap, id |-> id]

\* copy.deepcopy: a new object with equal content.
deepcopy(heap, id) == Alloc(heap, heap[id])

\* What the cache keeps of a payload object given to set.
EntryOf(kind, heap, id) ==
    IF kind = "bytes" THEN [raw |-> _serialize_payload(heap[id])] ELSE [obj |-> id]

\* cache.get on a present entry: the bytes deserialized into a new object,
\* or the object the cache keeps.
GetObject(kind, heap, entry) ==
    IF kind = "bytes" THEN Alloc(heap, _deserialize_payload(entry.raw))
    ELSE [heap |-> heap, id |-> entry.obj]

\* Lines 758-761 (hit) and 774-777 (value found by wait_for_value): the
\* cached payload is read and its deep copy returned.
CopyHit ==
    /\ copies.pc = "start"
    /\ copies.path \in {"hit", "waiter"}
    /\ LET got == GetObject(copies.kind, copies.heap, Val(copies.entry))
           out == deepcopy(got.heap, got.id)
       IN  copies' = [copies EXCEPT !.pc = "returned", !.heap = out.heap, !.result = Some(out.id)]
    /\ UNCHANGED <<cfgVars, lockVars, resVars, expiries, clientVars, factory, ttlCall, client, lookup, registry, endpoint, engine, overlay, waiter, parse, calc>>

\* Lines 793-824 (fresh computation): resultado is built, given to
\* cache.set, and its deep copy returned.
CopyFresh ==
    /\ copies.pc = "start"
    /\ copies.path = "fresh"
    /\ \E content \in Payloads :
        LET made == Alloc(copies.heap, content)
            out == deepcopy(made.heap, made.id)
        IN  copies' = [copies EXCEPT !.pc = "returned", !.heap = out.heap, !.result = Some(out.id),
                                     !.entry = Some(EntryOf(copies.kind, made.heap, made.id)),
                                     !.stored = content]
    /\ UNCHANGED <<cfgVars, lockVars, resVars, expiries, clientVars, factory, ttlCall, client, lookup, registry, endpoint, engine, overlay, waiter, parse, calc>>

\* The caller changes the dict it was given.
CopyMutate ==
    /\ copies.pc = "returned"
    /\ \E content \in Payloads \ {copies.heap[Val(copies.result)]} :
        copies' = [copies EXCEPT !.pc = "mutated", !.heap[Val(copies.result)] = content]
    /\ UNCHANGED <<cfgVars, lockVars, resVars, expiries, clientVars, factory, ttlCall, client, lookup, registry, endpoint, engine, overlay, waiter, parse, calc>>

\* A later cache.get of the key: later is the content it returns.
CopyLaterGet ==
    /\ copies.pc = "mutated"
    /\ LET got == GetObject(copies.kind, copies.heap, Val(copies.entry))
       IN  copies' = [copies EXCEPT !.pc = "read", !.heap = got.heap, !.later = Some(got.heap[got.id])]
    /\ UNCHANGED <<cfgVars, lockVars, resVars, expiries, clientVars, factory, ttlCall, client, lookup, registry, endpoint, engine, overlay, waiter, parse, calc>>

\* The cache before the resolution: empty on the fresh path, holding an
\* entry on the others.
CopiesStart(kind, path, content) ==
    IF path = "fresh"
    THEN [NoCopies EXCEPT !.pc = "start", !.kind = kind, !.path = path]
    ELSE LET made == Alloc(<<>>, content)
         IN  [NoCopies EXCEPT !.pc = "start", !.kind = kind, !.path = path,
                              !.heap = IF kind = "bytes" THEN <<>> ELSE made.heap,
                              !.entry = Some(EntryOf(kind, made.heap, made.id)),
                              !.stored = content]

InitCopies ==
    /\ backend = "sqlite"
    /\ orsConfigured = TRUE
    /\ ResolutionIdle
    /\ calc = NoCalc
    /\ parse = NoParse
    /\ waiter = NoWaiter
    /\ overlay = NoOverlay
    /\ engine = NoEngine
    /\ endpoint = NoEndpoint
    /\ registry = NoRegistry
    /\ lookup = NoLookup
    /\ factory = FactoryIdle(FALSE)
    /\ ttlCall = NoTtlCall
    /\ copies \in {CopiesStart(kind, path, content) :
                     kind \in {"bytes", "object"}, path \in {"hit", "waiter", "fresh"},
                     content \in Payloads}
    /\ client = NoClient

NextCopies == CopyHit \/ CopyFresh \/ CopyMutate \/ CopyLaterGet

SpecCopies == InitCopies /\ [][NextCopies]_vars

\* ------------------------------------------------------------ upstream client
\* ORSService._hacer_peticion_ors, lines 287-498.  Durations are counted in
\* quarters of a second, so that the default factor 0.75 is 3.
OneSecond == 4

\* Values of settings.ORS_MAX_RETRIES and settings.ORS_BACKOFF_FACTOR.
RetrySettings == -1 .. MaxRetriesSetting
BackoffSettings == {-1, 0, 1, 3}

\* Status codes the provider answers with.
Statuses == {200, 302, 400, 401, 403, 404, 418, 429, 500, 503}

\* One request more than the setting allows.
attempts_of_extra(max_retries) == Max(1, max_retries + 1) + 1

\* Line 304.
attempts_of(max_retries) == Max(1, max_retries + 1)

\* Line 305.
backoff_factor_of(factor) == Max(0, factor)

\* A delay that stays at the factor.
NetworkSleep_flat(backoff_factor, attempt) == backoff_factor

\* Lines 336 and 359.
NetworkSleep(backoff_factor, attempt) == backoff_factor * 2^(attempt - 1)

\* The schedule of the network failures, zero included.
RetrySleep_unfloored(backoff_factor, attempt) == backoff_factor * 2^(attempt - 1)

\* A delay that does not grow with the attempt.
RetrySleep_flat(backoff_factor, attempt) ==
    IF backoff_factor = 0 THEN OneSecond ELSE backoff_factor

\* Lines 449 and 485: backoff_factor * 2 ** (attempt - 1) or 1.0.
RetrySleep(backoff_factor, attempt) ==
    LET sleep_seconds == backoff_factor * 2^(attempt - 1)
    IN  IF sleep_seconds = 0 THEN OneSecond ELSE sleep_seconds

TimedOut == [kind |-> "timeout", status |-> 0]
ConnectionFailed == [kind |-> "connection_error", status |-> 0]
Response(status) == [kind |-> "response", status |-> status]

HTTPException(status_code, code, attempts) ==
    [status_code |-> status_code, code |-> code, attempts |-> attempts]

\* raise: the call ends with the exception.
Raise(c, exc) == [c EXCEPT !.pc = "raised", !.error = Some(exc)]

\* The retry of one attempt: asyncio.sleep(sleep_seconds) when there is a
\* duration to sleep, then continue with the next attempt.
Continue(c, sleep_seconds) ==
    IF sleep_seconds > 0
    THEN [c EXCEPT !.pc = "sleep", !.sleeps = Append(@, sleep_seconds)]
    ELSE [c EXCEPT !.attempt = @ + 1]

\* The request of the current attempt has been sent and met outcome.
Sent(outcome) == [client EXCEPT !.outcomes = Append(@, outcome)]

ClientUnchanged ==
    UNCHANGED <<cfgVars, lockVars, resVars, expiries, clientVars, factory, ttlCall, copies, lookup, registry, endpoint, engine, overlay, waiter, parse, calc>>

\* Lines 325-371: client.post raises httpx.TimeoutException or another
\* httpx.RequestError.
PostNetworkError ==
    /\ client.pc = "post"
    /\ \E outcome \in {TimedOut, ConnectionFailed} :
        LET c == Sent(outcome)
            attempts == attempts_of(c.ORS_MAX_RETRIES)
            backoff_factor == backoff_factor_of(c.ORS_BACKOFF_FACTOR)
        IN  client' =
              IF c.attempt < attempts
              THEN Continue(c, NetworkSleep(backoff_factor, c.attempt))
              ELSE IF outcome = TimedOut
                   THEN Raise(c, HTTPException(504, "ors_timeout", Some(c.attempt)))
                   ELSE Raise(c, HTTPException(502, "ors_connection_error", Some(c.attempt)))
    /\ ClientUnchanged

\* An unparsable body taken for one more failed attempt.
After200_retrying(c, parses) ==
    IF parses THEN [c EXCEPT !.pc = "returned", !.result = Some("json")]
    ELSE [c EXCEPT !.attempt = @ + 1]

\* Lines 374-390: return response.json(), or raise on json.JSONDecodeError.
After200(c, parses) ==
    IF parses THEN [c EXCEPT !.pc = "returned", !.result = Some("json")]
    ELSE Raise(c, HTTPException(502, "ors_invalid_json", None))

\* Lines 373-390: status 200; the body parses and is returned, or it does not.
Post200 ==
    /\ client.pc = "post"
    /\ \E parses \in BOOLEAN : client' = After200(Sent(Response(200)), parses)
    /\ ClientUnchanged

\* Every rejection raised as the unexpected status.
RejectedError_unclassified(status) == HTTPException(502, "ors_error", None)

\* The exceptions of lines 406, 420, 434, 466 and 498.
RejectedError(status) ==
    CASE status = 400 -> HTTPException(400, "ors_invalid_request", None)
      [] status = 401 -> HTTPException(500, "ors_invalid_key", None)
      [] status = 403 -> HTTPException(503, "ors_forbidden", None)
      [] status = 404 -> HTTPException(404, "ors_not_found", None)
      [] OTHER -> HTTPException(502, "ors_error", None)

\* Lines 394-434, 454-466 and 491-498: the statuses that end the call.
PostRejected ==
    /\ client.pc = "post"
    /\ \E status \in Statuses \ ({200, 429} \cup 500 .. 599) :
        client' = Raise(Sent(Response(status)), RejectedError(status))
    /\ ClientUnchanged

\* Lines 436-452 and 468-489: 429 and 5xx are retried while attempts remain.
PostRetryable ==
    /\ client.pc = "post"
    /\ \E status \in Statuses \cap ({429} \cup 500 .. 599) :
        LET c == Sent(Response(status))
            attempts == attempts_of(c.ORS_MAX_RETRIES)
            backoff_factor == backoff_factor_of(c.ORS_BACKOFF_FACTOR)
        IN  client' =
              IF c.attempt < attempts
              THEN [c EXCEPT !.pc = "sleep",
                             !.sleeps = Append(@, RetrySleep(backoff_factor, c.attempt))]
              ELSE IF status = 429
                   THEN Raise(c, HTTPException(503, "ors_rate_limited", None))
                   ELSE Raise(c, HTTPException(502, "ors_unavailable", None))
    /\ ClientUnchanged

\* asyncio.sleep returns and the loop continues with the next attempt.
Backoff ==
    /\ client.pc = "sleep"
    /\ client' = [client EXCEPT !.pc = "post", !.attempt = @ + 1]
    /\ ClientUnchanged

InitRetry ==
    /\ backend = "sqlite"
    /\ orsConfigured = TRUE
    /\ ResolutionIdle
    /\ calc = NoCalc
    /\ parse = NoParse
    /\ waiter = NoWaiter
    /\ overlay = NoOverlay
    /\ engine = NoEngine
    /\ endpoint = NoEndpoint
    /\ registry = NoRegistry
    /\ lookup = NoLookup
    /\ factory = FactoryIdle(FALSE)
    /\ ttlCall = NoTtlCall
    /\ copies = NoCopies
    /\ client \in {[NoClient EXCEPT !.pc = "post", !.ORS_MAX_RETRIES = max_retries,
                                     !.ORS_BACKOFF_FACTOR = factor, !.attempt = 1] :
                     max_retries \in RetrySettings, factor \in BackoffSettings}

NextRetry == PostNetworkError \/ Post200 \/ PostRejected \/ PostRetryable \/ Backoff

SpecRetry == InitRetry /\ [][NextRetry]_vars

\* ------------------------------------------------------------ error details
\* obtener_ruta_ors, lines 650-723, with the errors each of its steps raises.
\* A detail is a dict, of which the code and the message are kept, or a str.
Detail(code, message) == [code |-> Some(code), message |-> Some(message)]
Coded(code) == [code |-> Some(code), message |-> None]
Plain(message) == [code |-> None, message |-> Some(message)]

ErrorOf(status_code, detail) == [status_code |-> status_code, detail |-> detail]

\* The rows of the ubicaciones table, id -> <<longitud, latitud>>; the third
\* row has a latitude out of range, id 4 has no row.
Ubicaciones ==
    [id \in {1, 2, 3} |-> CASE id = 1 -> <<-110, 29>> [] id = 2 -> <<-111, 30>> [] OTHER -> <<-111, 95>>]
UbicacionIds == {1, 2, 3, 4}

LookupProfiles == {None, Some("DRIVING-CAR"), Some("rocket")}

\* The exceptions _hacer_peticion_ors raises (lines 340-498).
ClientErrors ==
    {ErrorOf(e[1], Detail(e[2], e[3])) : e \in
        { <<504, "ors_timeout", "Timeout al conectar con OpenRouteService">>,
          <<502, "ors_connection_error", "Error de conexión con OpenRouteService">>,
          <<502, "ors_invalid_json", "Respuesta inválida de OpenRouteService">>,
          <<400, "ors_invalid_request", "Parámetros inválidos en petición a OpenRouteService">>,
          <<500, "ors_invalid_key", "API Key de OpenRouteService inválida o expirada">>,
          <<503, "ors_forbidden", "OpenRouteService rechazó la petición (forbidden)">>,
          <<503, "ors_rate_limited", "Límite de solicitudes a OpenRouteService excedido">>,
          <<404, "ors_not_found", "OpenRouteService no encontró ruta para las coordenadas dadas">>,
          <<502, "ors_unavailable", "OpenRouteService no está disponible">>,
          <<502, "ors_error", "OpenRouteService devolvió estado 418">> }}

\* The shapes of a parsed body that _procesar_respuesta_ors tells apart.
Bodies ==
    {"not_dict", "no_routes", "empty_routes", "no_geometry", "bad_polyline",
     "unsupported_geometry", "no_summary", "bad_summary", "route"}

\* _procesar_respuesta_ors, lines 532-647: None for a route, else the
\* exception raised.
_procesar_respuesta_ors(body) ==
    CASE body = "not_dict" ->
           Some(ErrorOf(500, Plain("Formato de respuesta inesperado de OpenRouteService")))
      [] body = "no_routes" ->
           Some(ErrorOf(500, Plain("Estructura de respuesta inválida de OpenRouteService")))
      [] body = "empty_routes" ->
           Some(ErrorOf(404, Plain("No se pudo calcular ruta entre las ubicaciones")))
      [] body = "no_geometry" -> Some(ErrorOf(500, Plain("Geometría de ruta no disponible")))
      [] body = "bad_polyline" -> Some(ErrorOf(500, Plain("Error decodificando geometría de ruta")))
      [] body = "unsupported_geometry" -> Some(ErrorOf(500, Plain("Formato de geometría no soportado")))
      [] body = "no_summary" -> Some(ErrorOf(500, Plain("Resumen de ruta no disponible")))
      [] body = "bad_summary" ->
           Some(ErrorOf(500, Plain("Error procesando respuesta de OpenRouteService")))
      [] OTHER -> None

LookupRaise(exc) == [lookup EXCEPT !.pc = "raised", !.error = Some(exc)]

LookupUnchanged ==
    UNCHANGED <<cfgVars, lockVars, resVars, expiries, clientVars, factory, ttlCall, copies, client, registry, endpoint, engine, overlay, waiter, parse, calc>>

\* Lines 676-684 and 737-741: the two rows are looked up, their coordinates
\* validated and the profile normalized.
RutaLookup ==
    /\ lookup.pc = "start"
    /\ lookup' =
         IF lookup.desde_id \notin DOMAIN Ubicaciones
         THEN LookupRaise(ErrorOf(404, Plain("Ubicación origen no encontrada")))
         ELSE IF lookup.hacia_id \notin DOMAIN Ubicaciones
         THEN LookupRaise(ErrorOf(404, Plain("Ubicación destino no encontrada")))
         ELSE LET origen == Ubicaciones[lookup.desde_id]
                  destino == Ubicaciones[lookup.hacia_id]
                  coordenadas == << <<Num(origen[1]), Num(origen[2])>>,
                                    <<Num(destino[1]), Num(destino[2])>> >>
              IN  IF IsNone(_validate_coordinates(coordenadas))
                  THEN LookupRaise(ErrorOf(400, Detail("invalid_payload",
                                                       "Coordenada fuera de rango lon/lat")))
                  ELSE IF IsNone(normalize_profile(lookup.profile, None))
                  THEN LookupRaise(ErrorOf(400, Coded("invalid_profile")))
                  ELSE [lookup EXCEPT !.pc = "request"]
    /\ LookupUnchanged

\* Lines 782-786: ORSService() raises ValueError without key or base URL.
RutaConfigError ==
    /\ lookup.pc = "request"
    /\ ~orsConfigured
    /\ lookup' = LookupRaise(ErrorOf(500, Plain("ORS_API_KEY no está configurada")))
    /\ LookupUnchanged

\* Lines 788-792: _hacer_peticion_ors raises.
RutaRequestFails ==
    /\ lookup.pc = "request"
    /\ orsConfigured
    /\ \E exc \in ClientErrors : lookup' = LookupRaise(exc)
    /\ LookupUnchanged

\* Lines 788-802 and 704-723: the body arrives and is processed.
RutaProcess ==
    /\ lookup.pc = "request"
    /\ orsConfigured
    /\ \E body \in Bodies :
        LET exc == _procesar_respuesta_ors(body)
        IN  lookup' = IF IsNone(exc)
                      THEN [lookup EXCEPT !.pc = "returned", !.resultado = Some(body)]
                      ELSE LookupRaise(Val(exc))
    /\ LookupUnchanged

InitErrors ==
    /\ backend = "sqlite"
    /\ orsConfigured \in BOOLEAN
    /\ ResolutionIdle
    /\ calc = NoCalc
    /\ parse = NoParse
    /\ waiter = NoWaiter
    /\ overlay = NoOverlay
    /\ engine = NoEngine
    /\ endpoint = NoEndpoint
    /\ registry = NoRegistry
    /\ factory = FactoryIdle(FALSE)
    /\ ttlCall = NoTtlCall
    /\ copies = NoCopies
    /\ client = NoClient
    /\ lookup \in {[NoLookup EXCEPT !.pc = "start", !.desde_id = desde_id,
                                     !.hacia_id = hacia_id, !.profile = profile] :
                     desde_id \in UbicacionIds, hacia_id \in UbicacionIds,
                     profile \in LookupProfiles}

NextErrors == RutaLookup \/ RutaConfigError \/ RutaRequestFails \/ RutaProcess

SpecErrors == InitErrors /\ [][NextErrors]_vars

\* ------------------------------------------------------------ lock registry
\* SQLiteCache.acquire_lock, lines 196-203, statement by statement: enter
\* _locks_guard, look the key's lock up or create it, leave the guard, await
\* lock.acquire().  Tasks interleave at every statement, which includes the
\* interleavings of the event loop.
RegistryUnchanged ==
    UNCHANGED <<cfgVars, lockVars, resVars, expiries, clientVars, factory, ttlCall, copies, client,
                lookup, endpoint, engine, overlay, waiter, parse, calc>>

\* The guard kept after the lookup.
LeaveGuard_kept(reg, t) == [reg EXCEPT !.pc[t] = "acquire"]

\* The end of the async with block of lines 197-201.
LeaveGuard(reg, t) == [reg EXCEPT !.guard = None, !.pc[t] = "acquire"]

\* Line 197: async with self._locks_guard, entered when the guard is free.
RegistryEnter(t) ==
    /\ registry.pc[t] = "call"
    /\ IsNone(registry.guard)
    /\ registry' = [registry EXCEPT !.guard = Some(t), !.pc[t] = "lookup"]
    /\ RegistryUnchanged

\* Lines 198-201: self._locks.get(key), a new asyncio.Lock when there is none.
RegistryLookup(t) ==
    /\ registry.pc[t] = "lookup"
    /\ LET k == registry.key[t]
           found == IF IsNone(registry.locks[k]) THEN Some(NewLock) ELSE registry.locks[k]
       IN  registry' = LeaveGuard([registry EXCEPT !.locks[k] = found], t)
    /\ RegistryUnchanged

\* Line 202: await lock.acquire(), which takes a free lock or suspends.
RegistryAcquire(t) ==
    /\ registry.pc[t] = "acquire"
    /\ LET got == SQLite_acquire_lock(registry.locks, registry.key[t], t)
       IN  registry' = [registry EXCEPT !.locks = got.locks,
                                        !.pc[t] = IF got.blocked THEN "waiting" ELSE "holding"]
    /\ RegistryUnchanged

\* The suspended lock.acquire() resumes after a release.
RegistryResume(t) ==
    /\ registry.pc[t] = "waiting"
    /\ SQLite_can_resume(registry.locks, registry.key[t], t)
    /\ registry' = [registry EXCEPT !.locks = SQLite_acquire_resume(registry.locks, registry.key[t]),
                                    !.pc[t] = "holding"]
    /\ RegistryUnchanged

\* Lines 205-208: release_lock by the task that holds the key's lock.
RegistryRelease(t) ==
    /\ registry.pc[t] = "holding"
    /\ registry' = [registry EXCEPT
                      !.locks = SQLite_release_lock(registry.locks, registry.key[t], registry.key[t]),
                      !.pc[t] = "released"]
    /\ RegistryUnchanged

InitRegistry ==
    /\ backend = "sqlite"
    /\ orsConfigured = TRUE
    /\ ResolutionIdle
    /\ calc = NoCalc
    /\ parse = NoParse
    /\ waiter = NoWaiter
    /\ overlay = NoOverlay
    /\ engine = NoEngine
    /\ endpoint = NoEndpoint
    /\ factory = FactoryIdle(FALSE)
    /\ ttlCall = NoTtlCall
    /\ copies = NoCopies
    /\ client = NoClient
    /\ lookup = NoLookup
    /\ registry \in {[NoRegistry EXCEPT !.pc = [t \in RegistryTasks |-> "call"], !.key = key] :
                       key \in [RegistryTasks -> RegistryKeys]}

NextRegistry ==
    \/ \E t \in RegistryTasks : RegistryEnter(t)
    \/ \E t \in RegistryTasks : RegistryLookup(t)
    \/ \E t \in RegistryTasks : RegistryAcquire(t)
    \/ \E t \in RegistryTasks : RegistryResume(t)
    \/ \E t \in RegistryTasks : RegistryRelease(t)

SpecRegistry == InitRegistry /\ [][NextRegistry]_vars

\* ------------------------------------------------------------ coordinates endpoint
\* calcular_ruta_ors_por_coordenadas_endpoint (app/api/routes/rutas.py, lines
\* 141-157) and the validation at the head of
\* obtener_ruta_ors_por_coordenadas (lines 737-741).
EndpointProfiles ==
    {None, Some("driving-car"), Some("DRIVING-CAR"), Some(" Foot-Walking "), Some("   "),
     Some("rocket"), Some(" Rocket "), Some("Cycling-Regular")}

\* X-Allowed-Profiles, split at the commas and trimmed.
EndpointHeaders == {None, Some(<<"DRIVING-CAR", "rocket">>)}

\* _determine_allowed_profiles, lines 39-45.
_determine_allowed_profiles(header, debug) ==
    IF ~IsNone(header) /\ debug /\ Val(header) /= <<>>
    THEN normalize_allowed_profiles(header)
    ELSE normalize_allowed_profiles(None)

EndpointUnchanged ==
    UNCHANGED <<cfgVars, lockVars, resVars, expiries, clientVars, factory, ttlCall, copies, client,
                lookup, registry, engine, overlay, waiter, parse, calc>>

\* Lines 146-157: the endpoint calls the operation.
EndpointInvoke ==
    /\ endpoint.pc = "request"
    /\ endpoint' = [endpoint EXCEPT
                      !.pc = "operation",
                      !.invoked = TRUE,
                      !.op_profile = endpoint.profile,
                      !.op_allowed = _determine_allowed_profiles(endpoint.header, endpoint.DEBUG)]
    /\ EndpointUnchanged

\* Lines 737-741 of the operation, then its answer through the endpoint: the
\* HTTPException of the validation, or the route.
OperationValidate ==
    /\ endpoint.pc = "operation"
    /\ LET sanitized == _validate_coordinates(endpoint.coordenadas)
           allowed == normalize_allowed_profiles(Some(endpoint.op_allowed))
           profile == normalize_profile(endpoint.op_profile, Some(endpoint.op_allowed))
           received == IF ~IsNone(endpoint.op_profile) /\ StripLower(Val(endpoint.op_profile)) /= ""
                       THEN StripLower(Val(endpoint.op_profile))
                       ELSE allowed[1]
       IN  endpoint' =
             IF IsNone(sanitized)
             THEN [endpoint EXCEPT !.pc = "answered", !.status_code = 400,
                                   !.detail = Some(ValidationDetail("invalid_payload", <<>>, ""))]
             ELSE IF IsNone(profile)
             THEN [endpoint EXCEPT !.pc = "answered", !.status_code = 400,
                                   !.detail = Some(ValidationDetail("invalid_profile", allowed,
                                                                    received))]
             ELSE [endpoint EXCEPT !.pc = "answered", !.status_code = 200,
                                   !.normalized_profile = profile,
                                   !.cache_key = Some(_build_cache_key(Val(profile), Val(sanitized)))]
    /\ EndpointUnchanged

InitEndpoint ==
    /\ backend = "sqlite"
    /\ orsConfigured = TRUE
    /\ ResolutionIdle
    /\ calc = NoCalc
    /\ parse = NoParse
    /\ waiter = NoWaiter
    /\ overlay = NoOverlay
    /\ engine = NoEngine
    /\ factory = FactoryIdle(FALSE)
    /\ ttlCall = NoTtlCall
    /\ copies = NoCopies
    /\ client = NoClient
    /\ lookup = NoLookup
    /\ registry = NoRegistry
    /\ endpoint \in {[NoEndpoint EXCEPT !.pc = "request", !.coordenadas = coordenadas,
                                         !.profile = profile, !.header = header, !.DEBUG = debug] :
                       coordenadas \in {CoordsA, CoordsLonRange}, profile \in EndpointProfiles,
                       header \in EndpointHeaders, debug \in BOOLEAN}

NextEndpoint == EndpointInvoke \/ OperationValidate

SpecEndpoint == InitEndpoint /\ [][NextEndpoint]_vars

\* ------------------------------------------------------------ graph engine
\* app/services/rutas.py: construir_grafo, dijkstra, obtener_ruta.
\* The conexiones table is a function from <<origen_id, destino_id>> to
\* None or Some(peso); the tables of at most MaxConexiones rows.
Pesos == {5, 20}
Pares == {par \in Nodos \X Nodos : par[1] /= par[2]}
Tablas ==
    {c \in [Pares -> {None} \cup {Some(peso) : peso \in Pesos}] :
        Cardinality({par \in Pares : ~IsNone(c[par])}) <= MaxConexiones}

\* The ids 1..n in ascending order.
Ascending(n) == [i \in 1 .. n |-> i]

\* construir_grafo, lines 6-14: node -> list of <<vecino, peso>>.
construir_grafo(conexiones) ==
    [u \in Nodos |->
        LET Connected(v) == v /= u /\ ~IsNone(conexiones[<<u, v>>])
            vecinos == SelectSeq(Ascending(Cardinality(Nodos)), Connected)
        IN  [i \in 1 .. Len(vecinos) |-> <<vecinos[i], Val(conexiones[<<u, vecinos[i]>>])>>]]

\* The first path found is kept.
Improves_first(distancia, known) == IsNone(known)

\* Line 31: distancia < distancias[vecino]; None is float("inf").
Improves(distancia, known) == IsNone(known) \/ distancia < Val(known)

\* heapq.heappop: the least <<distance, node>> of the queue.
HeapMin(cola) ==
    CHOOSE e \in cola : \A f \in cola : e[1] < f[1] \/ (e[1] = f[1] /\ e[2] <= f[2])

\* Lines 29-34: the neighbours of actual_nodo from the i-th on.
RECURSIVE Relax(_, _, _, _)
Relax(eng, actual_nodo, actual_dist, i) ==
    IF i > Len(eng.grafo[actual_nodo]) THEN eng
    ELSE LET vecino == eng.grafo[actual_nodo][i][1]
             distancia == actual_dist + eng.grafo[actual_nodo][i][2]
         IN  IF Improves(distancia, eng.distancias[vecino])
             THEN Relax([eng EXCEPT !.distancias[vecino] = Some(distancia),
                                    !.anterior[vecino] = Some(actual_nodo),
                                    !.cola = @ \cup {<<distancia, vecino>>}],
                        actual_nodo, actual_dist, i + 1)
             ELSE Relax(eng, actual_nodo, actual_dist, i + 1)

\* Lines 36-40: the walk back from actual along anterior.
RECURSIVE WalkBack(_, _, _)
WalkBack(anterior, actual, ruta) ==
    IF IsNone(anterior[actual]) THEN [ruta |-> ruta, actual |-> actual]
    ELSE WalkBack(anterior, Val(anterior[actual]), <<actual>> \o ruta)

\* Lines 17-21 of dijkstra, called by obtener_ruta (line 49) on the graph of
\* construir_grafo.
EngineStart(conexiones, inicio, destino) ==
    [NoEngine EXCEPT !.pc = "loop", !.conexiones = conexiones,
                     !.grafo = construir_grafo(conexiones),
                     !.inicio = inicio, !.destino = destino,
                     !.distancias = [n \in NodoIds |-> IF n = inicio THEN Some(0) ELSE None],
                     !.anterior = [n \in NodoIds |-> None],
                     !.cola = {<<0, inicio>>}]

EngineUnchanged ==
    UNCHANGED <<cfgVars, lockVars, resVars, expiries, clientVars, factory, ttlCall, copies, client,
                lookup, registry, endpoint, overlay, waiter, parse, calc>>

\* Lines 23-34: one iteration of the while loop; grafo[actual_nodo] raises
\* KeyError for a node that is not in the graph.
DijkstraIterate ==
    /\ engine.pc = "loop"
    /\ engine.cola /= {}
    /\ LET popped == HeapMin(engine.cola)
           eng == [engine EXCEPT !.cola = @ \ {popped}]
       IN  engine' =
             IF popped[2] = engine.destino THEN [eng EXCEPT !.pc = "build"]
             ELSE IF popped[2] \notin DOMAIN engine.grafo
             THEN [eng EXCEPT !.pc = "raised", !.error = Some("KeyError")]
             ELSE Relax(eng, popped[2], popped[1], 1)
    /\ EngineUnchanged

\* Lines 36-44: the route is built once the loop has ended.
DijkstraBuild ==
    /\ engine.pc = "build" \/ (engine.pc = "loop" /\ engine.cola = {})
    /\ LET back == WalkBack(engine.anterior, engine.destino, <<>>)
       IN  engine' = [engine EXCEPT
                        !.pc = "returned",
                        !.ruta = Some(IF back.actual = engine.inicio
                                      THEN <<engine.inicio>> \o back.ruta
                                      ELSE <<>>)]
    /\ EngineUnchanged

\* Lines 51-57 of obtener_ruta: the rows of the route; ubicaciones_dict[i]
\* raises KeyError for an id without row.
ObtenerRuta ==
    /\ engine.pc = "returned"
    /\ LET ruta_ids == Val(engine.ruta)
       IN  engine' =
             IF \E i \in 1 .. Len(ruta_ids) : ruta_ids[i] \notin Nodos
             THEN [engine EXCEPT !.pc = "raised", !.ruta = None, !.error = Some("KeyError")]
             ELSE [engine EXCEPT !.pc = "done"]
    /\ EngineUnchanged

InitEngine ==
    /\ backend = "sqlite"
    /\ orsConfigured = TRUE
    /\ ResolutionIdle
    /\ calc = NoCalc
    /\ parse = NoParse
    /\ waiter = NoWaiter
    /\ overlay = NoOverlay
    /\ factory = FactoryIdle(FALSE)
    /\ ttlCall = NoTtlCall
    /\ copies = NoCopies
    /\ client = NoClient
    /\ lookup = NoLookup
    /\ registry = NoRegistry
    /\ endpoint = NoEndpoint
    /\ engine \in {EngineStart(conexiones, inicio, destino) :
                     conexiones \in Tablas, inicio \in NodoIds, destino \in NodoIds}

NextEngine == DijkstraIterate \/ DijkstraBuild \/ ObtenerRuta

SpecEngine == InitEngine /\ [][NextEngine]_vars

\* ------------------------------------------------------------ id-based variant
\* obtener_ruta_ors, lines 695-723, on the objects of the heap.  The two
\* rows looked up are valid ones of Ubicaciones.
OverlayIds == {1, 2}
Nombres == [id \in OverlayIds |-> IF id = 1 THEN "Biblioteca" ELSE "Cafeteria"]

\* Lines 794-801: origen / destino of the coordinate variant's resultado.
Punto(par) == [id |-> None, nombre |-> None, lng |-> par[1], lat |-> par[2]]

Resultado31(route, desde_id, hacia_id) ==
    [ruta |-> route, origen |-> Punto(Ubicaciones[desde_id]), destino |-> Punto(Ubicaciones[hacia_id])]

\* Lines 705-720: setdefault(...).update({"id", "nombre", "lat", "lng"}).
Labelled(id) ==
    [id |-> Some(id), nombre |-> Some(Nombres[id]), lng |-> Ubicaciones[id][1], lat |-> Ubicaciones[id][2]]

OverlayUnchanged ==
    UNCHANGED <<cfgVars, lockVars, resVars, expiries, clientVars, factory, ttlCall, copies, client,
                lookup, registry, endpoint, engine, waiter, parse, calc>>

\* Lines 695-702: the coordinate variant is called; it returns a deep copy
\* of the cached payload (lines 758-761, 774-777) or builds resultado, gives
\* it to cache.set and returns its deep copy (lines 793-824).
OverlayDelegate ==
    /\ overlay.pc = "start"
    /\ IF overlay.path = "fresh"
       THEN LET made == Alloc(overlay.heap,
                              Resultado31(overlay.route, overlay.desde_id, overlay.hacia_id))
                out == deepcopy(made.heap, made.id)
            IN  overlay' = [overlay EXCEPT !.pc = "delegated", !.heap = out.heap,
                                           !.entry = Some(EntryOf(overlay.kind, made.heap, made.id)),
                                           !.base = Some(out.id)]
       ELSE LET got == GetObject(overlay.kind, overlay.heap, Val(overlay.entry))
                out == deepcopy(got.heap, got.id)
            IN  overlay' = [overlay EXCEPT !.pc = "delegated", !.heap = out.heap,
                                           !.base = Some(out.id)]
    /\ OverlayUnchanged

\* Lines 704-723: the ids and names are written into a deep copy of
\* base_resultado, which is returned.
OverlayApply ==
    /\ overlay.pc = "delegated"
    /\ LET out == deepcopy(overlay.heap, Val(overlay.base))
       IN  overlay' = [overlay EXCEPT
                         !.pc = "returned",
                         !.heap = [out.heap EXCEPT ![out.id].origen = Labelled(overlay.desde_id),
                                                   ![out.id].destino = Labelled(overlay.hacia_id)],
                         !.result = Some(out.id)]
    /\ OverlayUnchanged

\* Lines 758-761 of a later resolution by coordinates that hits the key.
OverlayLaterHit ==
    /\ overlay.pc = "returned"
    /\ LET got == GetObject(overlay.kind, overlay.heap, Val(overlay.entry))
           out == deepcopy(got.heap, got.id)
       IN  overlay' = [overlay EXCEPT !.pc = "read", !.heap = out.heap,
                                      !.later = Some(out.heap[out.id])]
    /\ OverlayUnchanged

\* The cache before the call: empty on the fresh path, holding the entry an
\* earlier resolution of the key wrote on the others.
OverlayStart(kind, path, route, desde_id, hacia_id) ==
    LET call == [NoOverlay EXCEPT !.pc = "start", !.kind = kind, !.path = path, !.route = route,
                                  !.desde_id = desde_id, !.hacia_id = hacia_id]
        made == Alloc(<<>>, Resultado31(route, desde_id, hacia_id))
    IN  IF path = "fresh" THEN call
        ELSE [call EXCEPT !.heap = IF kind = "bytes" THEN <<>> ELSE made.heap,
                          !.entry = Some(EntryOf(kind, made.heap, made.id))]

InitOverlay ==
    /\ backend = "sqlite"
    /\ orsConfigured = TRUE
    /\ ResolutionIdle
    /\ calc = NoCalc
    /\ parse = NoParse
    /\ waiter = NoWaiter
    /\ factory = FactoryIdle(FALSE)
    /\ ttlCall = NoTtlCall
    /\ copies = NoCopies
    /\ client = NoClient
    /\ lookup = NoLookup
    /\ registry = NoRegistry
    /\ endpoint = NoEndpoint
    /\ engine = NoEngine
    /\ overlay \in {OverlayStart(kind, path, route, desde_id, hacia_id) :
                      kind \in {"bytes", "object"}, path \in {"hit", "waiter", "fresh"},
                      route \in Payloads, desde_id \in OverlayIds, hacia_id \in OverlayIds}

NextOverlay == OverlayDelegate \/ OverlayApply \/ OverlayLaterHit

SpecOverlay == InitOverlay /\ [][NextOverlay]_vars

\* ------------------------------------------------------------ wait_for_value
\* CacheService.wait_for_value, cache_service.py lines 64-72.  The delay is
\* counted in quarters of a second (the default is 0.25 s).
AttemptSettings == (-1 .. MaxAttempts) \cup {WaitAttempts}
DelaySettings == {0, 1}

\* range(attempts) yields one value more.
InRange_inclusive(i, attempts) == i <= attempts

\* Line 67: for _ in range(attempts), i iterations done.
InRange(i, attempts) == i < attempts

WaiterUnchanged ==
    UNCHANGED <<cfgVars, lockVars, resVars, expiries, clientVars, factory, ttlCall, copies, client,
                lookup, registry, endpoint, engine, overlay, parse, calc>>

\* Lines 67-70: the next iteration calls get; a value is returned at once,
\* an exception of get leaves the call.
WaitGet ==
    /\ waiter.pc = "loop"
    /\ InRange(Len(waiter.polled), waiter.attempts)
    /\ \/ \E payload \in Payloads :
            waiter' = [waiter EXCEPT !.pc = "returned", !.polled = Append(@, Some(payload)),
                                     !.result = Some(payload)]
       \/ waiter' = [waiter EXCEPT !.pc = "sleep", !.polled = Append(@, None)]
       \/ waiter' = [waiter EXCEPT !.pc = "raised"]
    /\ WaiterUnchanged

\* Line 71: asyncio.sleep(delay) after a miss.
WaitSleep ==
    /\ waiter.pc = "sleep"
    /\ waiter' = [waiter EXCEPT !.pc = "loop", !.slept = @ + waiter.delay]
    /\ WaiterUnchanged

\* Line 72: the range is used up.
WaitExhausted ==
    /\ waiter.pc = "loop"
    /\ ~InRange(Len(waiter.polled), waiter.attempts)
    /\ waiter' = [waiter EXCEPT !.pc = "returned", !.result = None]
    /\ WaiterUnchanged

InitWaiter ==
    /\ backend = "sqlite"
    /\ orsConfigured = TRUE
    /\ ResolutionIdle
    /\ calc = NoCalc
    /\ parse = NoParse
    /\ factory = FactoryIdle(FALSE)
    /\ ttlCall = NoTtlCall
    /\ copies = NoCopies
    /\ client = NoClient
    /\ lookup = NoLookup
    /\ registry = NoRegistry
    /\ endpoint = NoEndpoint
    /\ engine = NoEngine
    /\ overlay = NoOverlay
    /\ waiter \in {[NoWaiter EXCEPT !.pc = "loop", !.attempts = attempts, !.delay = delay] :
                     attempts \in AttemptSettings, delay \in DelaySettings}

NextWaiter == WaitGet \/ WaitSleep \/ WaitExhausted

SpecWaiter == InitWaiter /\ [][NextWaiter]_vars

\* ------------------------------------------------------------ response normalization
\* _normalize_step_text, _extract_step_location, _parse_steps (lines 140-214)
\* and ORSService._procesar_respuesta_ors (lines 532-647).  A str is the
\* sequence of its characters; a JSON number is <<"num", t>> in tenths, or
\* one of the values float() takes apart: <<"inf", 0>> (1e999, "Infinity"),
\* <<"nan", 0>>, <<"text", 0>> (a str float() rejects), <<"null", 0>>,
\* <<"list", 0>>, <<"missing", 0>>.
Space(c) == c \in {" ", "\t"}

Lower(c) == CASE c = "A" -> "a" [] c = "B" -> "b" [] c = "P" -> "p" [] OTHER -> c

LowerStr(str) == [i \in 1 .. Len(str) |-> Lower(str[i])]

RECURSIVE LStrip(_)
LStrip(str) == IF str /= <<>> /\ Space(str[1]) THEN LStrip(Tail(str)) ELSE str

RECURSIVE RStrip(_)
RStrip(str) ==
    IF str /= <<>> /\ Space(str[Len(str)]) THEN RStrip(SubSeq(str, 1, Len(str) - 1)) ELSE str

\* str.strip()
Strip(str) == RStrip(LStrip(str))

\* needle in hay
Contains(hay, needle) ==
    \E i \in 0 .. Len(hay) - Len(needle) : SubSeq(hay, i + 1, i + Len(needle)) = needle

\* re.sub(r"\s+", " ", str): of a run of whitespace the first character
\* stays, as a blank.
Collapse(str) ==
    LET First(i) == ~(Space(str[i]) /\ i > 1 /\ Space(str[i - 1]))
        kept == SelectSeq([i \in 1 .. Len(str) |-> i], First)
    IN  [k \in 1 .. Len(kept) |-> IF Space(str[kept[k]]) THEN " " ELSE str[kept[k]]]

\* str(n) for n >= 0
RECURSIVE Decimal(_)
Decimal(n) ==
    LET digit == <<"0", "1", "2", "3", "4", "5", "6", "7", "8", "9">>[(n % 10) + 1]
    IN  IF n < 10 THEN <<digit>> ELSE Decimal(n \div 10) \o <<digit>>

\* Lines 151-152: normalized[: MAX_STEP_TEXT_LENGTH - 3].rstrip() + "..."
Truncated(normalized) ==
    IF Len(normalized) > MAX_STEP_TEXT_LENGTH
    THEN RStrip(SubSeq(normalized, 1, MAX_STEP_TEXT_LENGTH - 3)) \o <<".", ".", ".">>
    ELSE normalized

\* Lines 140-153; instruction and name are None when they are no str.
_normalize_step_text(instruction, name, step_index) ==
    LET stripped == IF IsNone(instruction) THEN <<>> ELSE Strip(Val(instruction))
        step_name == IF IsNone(name) THEN <<>> ELSE Strip(Val(name))
        raw_instruction ==
            IF stripped = <<>> THEN <<"P", "a", "s", "o", " ">> \o Decimal(step_index) ELSE stripped
        named ==
            IF step_name /= <<>> /\ ~Contains(LowerStr(raw_instruction), LowerStr(step_name))
            THEN raw_instruction \o <<" ", "e", "n", " ">> \o step_name
            ELSE raw_instruction
    IN  Truncated(Strip(Collapse(named)))

\* round(): to the nearest integer, a half to the even one; t in tenths.
Round(t) ==
    LET q == t \div 10
        r == t % 10
    IN  IF r < 5 \/ (r = 5 /\ q % 2 = 0) THEN q ELSE q + 1

\* Lines 188-195 and 203-204: max(0, int(round(float(v or 0)))), 0 on
\* TypeError and ValueError; None stands for the OverflowError that int()
\* raises on an infinite float.
Coerce(v) ==
    CASE v[1] = "num" -> Some(Max(0, Round(v[2])))
      [] v[1] = "inf" -> None
      [] OTHER -> Some(0)

\* Lines 156-176: way_point is the first of way_points when it is an int,
\* coordinate the pair of floats of the coordinate field, else None.
_extract_step_location(step, ruta_coordenadas) ==
    IF ~IsNone(step.way_point) /\ 0 <= Val(step.way_point)
          /\ Val(step.way_point) < Len(ruta_coordenadas)
    THEN Some(ruta_coordenadas[Val(step.way_point) + 1])
    ELSE IF ~IsNone(step.coordinate)
    THEN Some([lat |-> Val(step.coordinate)[2], lng |-> Val(step.coordinate)[1]])
    ELSE None

\* The cap is tested before the step is appended.
CapReached_early(parsed_steps) == Len(parsed_steps) >= MAX_ROUTE_STEPS + 1

\* Line 210: len(parsed_steps) >= MAX_ROUTE_STEPS
CapReached(parsed_steps) == Len(parsed_steps) >= MAX_ROUTE_STEPS

\* int(): towards zero; t in tenths.
Trunc(t) == IF t >= 0 THEN t \div 10 ELSE -((-t) \div 10)

\* What ends a _procesar_respuesta_ors call: the dict returned, the
\* HTTPException raised, or the exception that no except clause catches.
Returned(resultado) == [kind |-> "returned", resultado |-> Some(resultado), detail |-> ""]
Http(status_code, detail) == [kind |-> "http", resultado |-> None, detail |-> detail]
Uncaught(exc) == [kind |-> "uncaught", resultado |-> None, detail |-> exc]

\* Lines 617-618: int(summary.get(field, 0)); the outcome that ends the
\* call when int() raises, else the integer.
SummaryInt(v) ==
    CASE v[1] = "num" -> Some(Trunc(v[2]))
      [] v[1] = "missing" -> Some(0)
      [] OTHER -> None

SummaryRaise(v) ==
    IF v[1] = "inf" THEN Uncaught("OverflowError")
    ELSE Http(500, "Error procesando respuesta de OpenRouteService")

\* Lines 620-623 and 180-181: the list the loop of _parse_steps runs over,
\* None when there is none.
RawSteps(segments) ==
    IF segments.kind = "list" /\ segments.items /= <<>> /\ segments.items[1].dict
    THEN segments.items[1].steps
    ELSE None

\* The pairs are taken as <<lat, lng>>.
PointsOf_unswapped(geometry) ==
    CASE geometry.kind \in {"polyline", "geojson"} ->
           LET Pair(coord) == Len(coord) >= 2
               pairs == SelectSeq(geometry.points, Pair)
           IN  Some([i \in 1 .. Len(pairs) |-> [lat |-> pairs[i][1], lng |-> pairs[i][2]]])
      [] OTHER -> None

\* Lines 585-606: the points of the geometry, None when the call ends here.
PointsOf(geometry) ==
    CASE geometry.kind = "polyline" ->
           Some([i \in 1 .. Len(geometry.points) |->
                   [lat |-> geometry.points[i][1], lng |-> geometry.points[i][2]]])
      [] geometry.kind = "geojson" ->
           LET Pair(coord) == Len(coord) >= 2
               pairs == SelectSeq(geometry.points, Pair)
           IN  Some([i \in 1 .. Len(pairs) |-> [lat |-> pairs[i][2], lng |-> pairs[i][1]]])
      [] OTHER -> None

GeometryRaise(geometry) ==
    CASE geometry.kind = "missing" -> Http(500, "Geometría de ruta no disponible")
      [] geometry.kind = "bad_polyline" -> Http(500, "Error decodificando geometría de ruta")
      [] OTHER -> Http(500, "Formato de geometría no soportado")

\* Lines 572-618: what ends the call before the steps are looked at, None
\* when nothing does.
BeforeSteps(route) ==
    LET summary == route.summary
    IN  IF IsNone(PointsOf(route.geometry)) THEN Some(GeometryRaise(route.geometry))
        ELSE IF summary.kind = "missing" THEN Some(Http(500, "Resumen de ruta no disponible"))
        ELSE IF summary.kind = "null" THEN Some(Uncaught("AttributeError"))
        ELSE IF IsNone(SummaryInt(summary.distance)) THEN Some(SummaryRaise(summary.distance))
        ELSE IF IsNone(SummaryInt(summary.duration)) THEN Some(SummaryRaise(summary.duration))
        ELSE None

\* Lines 630-637: the dict returned.
Finish(route, steps) ==
    Returned([ruta |-> Val(PointsOf(route.geometry)),
              distancia_m |-> Val(SummaryInt(route.summary.distance)),
              duracion_s |-> Val(SummaryInt(route.summary.duration)),
              instrucciones |-> steps,
              steps_count |-> Len(steps),
              current_step_index |-> 0])

\* ---- the first routes given to it
Repeat(c, n) == [i \in 1 .. n |-> c]

PlainStep ==
    [dict |-> TRUE, instruction |-> Some(<<"A", "b">>), name |-> Some(<<>>),
     distance |-> <<"num", 504>>, duration |-> <<"num", 202>>,
     way_point |-> Some(0), coordinate |-> None]

StepShapes ==
    { PlainStep,
      [dict |-> FALSE],
      [PlainStep EXCEPT !.name = Some(<<"P", "a">>)],
      [PlainStep EXCEPT !.instruction = Some(<<"a", " ", "P", "b">>), !.name = Some(<<"p", "B">>)],
      [PlainStep EXCEPT !.instruction =
          Some(Repeat("a", MAX_STEP_TEXT_LENGTH - 4) \o <<" ">> \o Repeat("b", 63))],
      [PlainStep EXCEPT !.instruction = Some(Repeat("a", MAX_STEP_TEXT_LENGTH - 2)),
                        !.name = Some(<<"P", "a">>)],
      [PlainStep EXCEPT !.instruction = Some(<<" ", " ", "a", " ", "\t", " ", "b", " ">>),
                        !.name = None],
      [PlainStep EXCEPT !.instruction = None, !.name = Some(<<"P", "a">>)],
      [PlainStep EXCEPT !.distance = <<"num", -35>>, !.duration = <<"text", 0>>],
      [PlainStep EXCEPT !.distance = <<"num", 505>>, !.duration = <<"num", 515>>],
      [PlainStep EXCEPT !.distance = <<"missing", 0>>, !.duration = <<"null", 0>>],
      [PlainStep EXCEPT !.distance = <<"nan", 0>>, !.duration = <<"list", 0>>],
      [PlainStep EXCEPT !.distance = <<"inf", 0>>],
      [PlainStep EXCEPT !.duration = <<"inf", 0>>],
      [PlainStep EXCEPT !.way_point = Some(7), !.coordinate = Some(<<-110, 29>>)],
      [PlainStep EXCEPT !.way_point = None] }

StepCounts == (0 .. 2) \cup (MAX_ROUTE_STEPS - 1 .. MAX_ROUTE_STEPS + MaxExtraSteps)

\* n steps, all plain but the one at pos.
StepList(n, pos, special) == [i \in 1 .. n |-> IF i = pos THEN special ELSE PlainStep]

GoodGeometry == [kind |-> "geojson", points |-> << <<-110, 29>>, <<-111, 30>> >>]
GoodSummary == [kind |-> "dict", distance |-> <<"num", 806>>, duration |-> <<"num", 404>>]

Geometries ==
    { GoodGeometry,
      [kind |-> "geojson", points |-> << <<-110, 29>>, <<5>>, <<-111, 30>> >>],
      [kind |-> "polyline", points |-> << <<29, -110>>, <<30, -111>> >>],
      [kind |-> "bad_polyline", points |-> <<>>],
      [kind |-> "other", points |-> <<>>],
      [kind |-> "missing", points |-> <<>>] }

Summaries ==
    { GoodSummary,
      [GoodSummary EXCEPT !.distance = <<"missing", 0>>, !.duration = <<"num", -404>>],
      [GoodSummary EXCEPT !.distance = <<"text", 0>>],
      [GoodSummary EXCEPT !.duration = <<"inf", 0>>],
      [GoodSummary EXCEPT !.kind = "null"],
      [GoodSummary EXCEPT !.kind = "missing"] }

NoSegments == [kind |-> "missing", items |-> <<>>]
Segments(steps) == [kind |-> "list", items |-> <<[dict |-> TRUE, steps |-> steps]>>]

\* The segments without step data.
Stepless ==
    { NoSegments,
      [kind |-> "null", items |-> <<>>],
      [kind |-> "list", items |-> <<>>],
      [kind |-> "list", items |-> <<[dict |-> FALSE, steps |-> None]>>],
      Segments(None) }

Rutas ==
    {[geometry |-> geometry, summary |-> summary, segments |-> segments] :
        geometry \in Geometries, summary \in Summaries, segments \in Stepless}
    \cup
    {[geometry |-> GoodGeometry, summary |-> GoodSummary,
      segments |-> Segments(Some(StepList(n, pos, special)))] :
        n \in StepCounts, pos \in {1, MAX_ROUTE_STEPS, MAX_ROUTE_STEPS + 1}, special \in StepShapes}

ParseUnchanged ==
    UNCHANGED <<cfgVars, lockVars, resVars, expiries, clientVars, factory, ttlCall, copies, client,
                lookup, registry, endpoint, engine, overlay, waiter, calc>>

\* Lines 572-626: _procesar_respuesta_ors on a body whose first route is
\* parse.route, up to the loop of _parse_steps.
ProcessRoute ==
    /\ parse.pc = "start"
    /\ LET ended == BeforeSteps(parse.route)
           raw_steps == RawSteps(parse.route.segments)
       IN  parse' =
             IF ~IsNone(ended) THEN [parse EXCEPT !.pc = "done", !.outcome = Val(ended)]
             ELSE IF IsNone(raw_steps)
             THEN [parse EXCEPT !.pc = "done", !.outcome = Finish(parse.route, <<>>)]
             ELSE [parse EXCEPT !.pc = "steps", !.raw_steps = Val(raw_steps)]
    /\ ParseUnchanged

\* Lines 184-212: one iteration of the loop of _parse_steps, on
\* raw_steps[idx]; int() of an infinite float raises OverflowError, which
\* no except clause of the two functions catches.
ParseStep ==
    /\ parse.pc = "steps"
    /\ parse.idx < Len(parse.raw_steps)
    /\ LET step == parse.raw_steps[parse.idx + 1]
           ruta_coordenadas == Val(PointsOf(parse.route.geometry))
       IN  parse' =
             IF ~step.dict THEN [parse EXCEPT !.idx = @ + 1]
             ELSE IF IsNone(Coerce(step.distance)) \/ IsNone(Coerce(step.duration))
             THEN [parse EXCEPT !.pc = "done", !.outcome = Uncaught("OverflowError")]
             ELSE LET appended ==
                          Append(parse.parsed_steps,
                                 [orden |-> parse.idx,
                                  texto |-> _normalize_step_text(step.instruction, step.name,
                                                                 parse.idx + 1),
                                  distance_m |-> Val(Coerce(step.distance)),
                                  duration_s |-> Val(Coerce(step.duration)),
                                  location |-> _extract_step_location(step, ruta_coordenadas)])
                  IN  IF CapReached(appended)
                      THEN [parse EXCEPT !.pc = "done", !.parsed_steps = appended,
                                         !.outcome = Finish(parse.route, appended)]
                      ELSE [parse EXCEPT !.idx = @ + 1, !.parsed_steps = appended]
    /\ ParseUnchanged

\* Line 214 and lines 630-637: the list is used up.
ParseReturn ==
    /\ parse.pc = "steps"
    /\ parse.idx >= Len(parse.raw_steps)
    /\ parse' = [parse EXCEPT !.pc = "done", !.outcome = Finish(parse.route, parse.parsed_steps)]
    /\ ParseUnchanged

InitParse ==
    /\ backend = "sqlite"
    /\ orsConfigured = TRUE
    /\ ResolutionIdle
    /\ calc = NoCalc
    /\ factory = FactoryIdle(FALSE)
    /\ ttlCall = NoTtlCall
    /\ copies = NoCopies
    /\ client = NoClient
    /\ lookup = NoLookup
    /\ registry = NoRegistry
    /\ endpoint = NoEndpoint
    /\ engine = NoEngine
    /\ overlay = NoOverlay
    /\ waiter = NoWaiter
    /\ parse \in {[NoParse EXCEPT !.pc = "start", !.route = route] : route \in Rutas}

NextParse == ProcessRoute \/ ParseStep \/ ParseReturn

SpecParse == InitParse /\ [][NextParse]_vars

\* ------------------------------------------------------------ graph endpoint
\* calcular_ruta, app/api/routes/rutas.py lines 48-95, on the obtener_ruta
\* call of engine.  What the body of its try block ends with: the exception
\* raised, or the response returned.
Raised(type, status_code, text) ==
    [raised |-> TRUE, type |-> type, status_code |-> status_code, text |-> text, ruta |-> <<>>]

\* Lines 59-92.
TryBody(eng) ==
    IF eng.pc = "raised" THEN Raised(Val(eng.error), 0, Val(eng.error))
    ELSE IF Val(eng.ruta) = <<>>
    THEN Raised("HTTPException", 404, "No se encontró ruta")
    ELSE [raised |-> FALSE, type |-> "", status_code |-> 200, text |-> "", ruta |-> Val(eng.ruta)]

\* Lines 94-95: except Exception as e: raise HTTPException(500, ...).
\* HTTPException is an Exception, so the 404 of line 62 lands here too; str()
\* of one is written "<status>: <detail>", as Starlette formats it.
ExceptException(ended) ==
    IF ended.raised
    THEN [status_code |-> 500,
          detail |-> IF ended.type = "HTTPException" THEN "Error calculando ruta: 404: " \o ended.text
                     ELSE "Error calculando ruta: " \o ended.text,
          ruta |-> <<>>]
    ELSE [status_code |-> ended.status_code, detail |-> "", ruta |-> ended.ruta]

\* The request is answered once obtener_ruta has returned or raised.
CalcularRuta ==
    /\ calc.pc = "called"
    /\ engine.pc \in {"done", "raised"}
    /\ LET response == ExceptException(TryBody(engine))
       IN  calc' = [pc |-> "responded", status_code |-> response.status_code,
                    detail |-> response.detail, ruta |-> response.ruta]
    /\ UNCHANGED <<cfgVars, lockVars, resVars, expiries, clientVars, factory, ttlCall, copies, client,
                   lookup, registry, endpoint, engine, overlay, waiter, parse>>

InitCalcular ==
    /\ backend = "sqlite"
    /\ orsConfigured = TRUE
    /\ ResolutionIdle
    /\ factory = FactoryIdle(FALSE)
    /\ ttlCall = NoTtlCall
    /\ copies = NoCopies
    /\ client = NoClient
    /\ lookup = NoLookup
    /\ registry = NoRegistry
    /\ endpoint = NoEndpoint
    /\ overlay = NoOverlay
    /\ waiter = NoWaiter
    /\ parse = NoParse
    /\ engine \in {EngineStart(conexiones, inicio, destino) :
                     conexiones \in Tablas, inicio \in NodoIds, destino \in NodoIds}
    /\ calc = [NoCalc EXCEPT !.pc = "called"]

NextCalcular == NextEngine \/ CalcularRuta

SpecCalcular == InitCalcular /\ [][NextCalcular]_vars

Next ==
    \/ \E t \in Tasks, rq \in Requests : Start(t, rq)
    \/ \E t \in Tasks : CacheGet(t)
    \/ \E t \in Tasks : AcquireLockRedis(t)
    \/ \E t \in Tasks : AcquireLockSQLite(t)
    \/ \E t \in Tasks : AcquireResume(t)
    \/ \E t \in Tasks : WaitPoll(t)
    \/ \E t \in Tasks : Upstream(t)
    \/ \E t \in Tasks : CacheSet(t)
    \/ \E t \in Tasks : ReleaseLock(t)
    \/ \E k \in Keys : ExpireEntry(k)
    \/ \E k \in Keys : ExpireLock(k)

Spec == Init /\ [][Next]_vars

\* The steps of the call of task t that the event loop, the cache backend
\* and an upstream that answers every request let happen.
Progress(t) ==
    \/ CacheGet(t)
    \/ AcquireLockRedis(t)
    \/ AcquireLockSQLite(t)
    \/ AcquireResume(t)
    \/ WaitPoll(t)
    \/ Upstream(t)
    \/ CacheSet(t)
    \/ ReleaseLock(t)

\* Every call goes on whenever it can, and a Redis lock key expires.
SpecLive ==
    /\ Init /\ [][Next]_vars
    /\ \A t \in Tasks : WF_vars(Progress(t))
    /\ \A k \in Keys : WF_vars(ExpireLock(k))

\* ------------------------------------------------------------ properties
Done(t) == res[t].pc = "done"
Has(t, op) == \E i \in 1..Len(res[t].log) : res[t].log[i] = op
Called(t) == Has(t, "upstream")
Succeeded(t) == Done(t) /\ Val(res[t].outcome).kind = "ok"
Failed(t) == ~IsNone(res[t].outcome) /\ Val(res[t].outcome).kind = "error"
UpstreamFailure == {Err("ors_config"), Err("ors_error"), Err("ors_response")}
SameKey(a, b) == ~IsNone(res[a].cache_key) /\ res[a].cache_key = res[b].cache_key
Quiet(t) == res[t].faulted = {}

\* C1: a resolution that acquired the lock and then fails in ORSService(),
\* in the upstream request or in the normalization has called release_lock
\* by the time the error reaches its caller.
C1_ReleaseOnFailure ==
    \A t \in Tasks :
        (Done(t) /\ ~IsNone(res[t].lock_token) /\ Val(res[t].outcome) \in UpstreamFailure)
            => Has(t, "release_lock")

\* State reached by the case of C1: a call that took the lock has failed in
\* the upstream stage.
C1_FailedHoldingLock ==
    \E t \in Tasks :
        Done(t) /\ ~IsNone(res[t].lock_token) /\ Val(res[t].outcome) \in UpstreamFailure

\* Two calls that overlap in time, both started on a cache without entry for
\* their common key (both missed their get), undisturbed, none of them running
\* out of wait_for_value attempts, both returning a route.
Overlap(a, b) ==
    /\ a /= b /\ Done(a) /\ Done(b)
    /\ res[a].id \notin res[b].before /\ res[b].id \notin res[a].before
    /\ SameKey(a, b)
    /\ Has(a, "acquire_lock") /\ Has(b, "acquire_lock")
    /\ Quiet(a) /\ Quiet(b) /\ faults = 0 /\ expiries = 0
    /\ ~res[a].fell_through /\ ~res[b].fell_through
    /\ Succeeded(a) /\ Succeeded(b)

\* C2: of several calls for one key that start concurrently on an empty
\* cache, with the upstream answering within the waiters' polling window,
\* exactly one calls the upstream and the others return the entry it cached.
C2_SingleFlight ==
    \A a, b \in Tasks :
        Overlap(a, b) => /\ Called(a) /= Called(b)
                         /\ res[a].outcome = res[b].outcome

\* Two calls for one key, the only ones so far, the second issued after the
\* first returned its route, the cache in use and undisturbed, no TTL elapsed.
OneAfterTheOther(a, b) ==
    /\ Succeeded(a) /\ Succeeded(b)
    /\ started = 2
    /\ res[a].id \in res[b].before
    /\ SameKey(a, b)
    /\ Quiet(a) /\ Quiet(b) /\ faults = 0 /\ expiries = 0

\* C3: two resolutions of the same valid request, one after the other within
\* the TTL window, make one upstream call in total and return equal results.
C3_ReadThrough ==
    \A a, b \in Tasks :
        OneAfterTheOther(a, b) => /\ Called(a) /\ ~Called(b)
                                  /\ upstreamCalls = 1
                                  /\ res[a].outcome = res[b].outcome

C3_Witness == \E a, b \in Tasks : OneAfterTheOther(a, b)

\* The call is at or past the upstream request with the cache in use.
PastLock(t) ==
    /\ ~IsNone(res[t].cache_key)
    /\ res[t].pc \in {"upstream", "set", "release"} \/ (Done(t) /\ Called(t))

LockFault(t) == res[t].faulted \cap {"acquire_lock", "wait_for_value"} /= {}

\* C4: a call reaches the upstream request and the cache write for a key only
\* with the token acquire_lock gave it, or after wait_for_value ran out of
\* attempts, or after the lock step raised; and two calls for one key are
\* past the lock step with a token each only once the first one's Redis lock
\* key has expired.
C4_UpstreamUnderLock ==
    /\ \A t \in Tasks :
         PastLock(t) => ~IsNone(res[t].lock_token) \/ res[t].fell_through \/ LockFault(t)
    /\ \A a, b \in Tasks :
         (a /= b /\ SameKey(a, b)
            /\ res[a].pc \in {"upstream", "set", "release"}
            /\ res[b].pc \in {"upstream", "set", "release"}
            /\ ~IsNone(res[a].lock_token) /\ ~IsNone(res[b].lock_token))
         => backend = "redis" /\ expiries > 0

\* The documented fall-through: one call holds the lock and is at the
\* upstream request while another, out of attempts, is there without lock.
C4_Witness ==
    \E a, b \in Tasks :
        /\ a /= b /\ SameKey(a, b)
        /\ res[a].pc = "upstream" /\ ~IsNone(res[a].lock_token)
        /\ res[b].pc = "upstream" /\ IsNone(res[b].lock_token) /\ res[b].fell_through

\* The outcomes of a call that runs without cache: the route of its own
\* upstream request, or the error of the upstream stage.
NoCacheOutcome(t) ==
    \/ Val(res[t].outcome) \in UpstreamFailure /\ IsNone(res[t].resultado)
    \/ /\ Called(t)
       /\ ~IsNone(res[t].resultado)
       /\ res[t].outcome = Some(Ok(Val(res[t].resultado)))

ReturnedWaitedValue(t) ==
    /\ Has(t, "wait_for_value") /\ ~Called(t) /\ Succeeded(t)
    /\ Val(res[t].outcome).value.perfil = Val(res[t].normalized_profile)
    /\ Val(res[t].outcome).value.origen = Val(res[t].sanitized_coords)[1]

C6_NoSetOnFailure ==
    /\ \A t \in Tasks : Failed(t) => ~Has(t, "set")
    /\ \A t \in Tasks : Has(t, "set") => Has(t, "normalize") /\ ~IsNone(res[t].resultado)
    /\ \A k \in Keys :
         ~IsNone(store[k]) =>
            LET payload == _deserialize_payload(Val(store[k]).raw)
            IN  /\ payload.ver \in 1..upstreamCalls
                /\ k = <<"coords", payload.perfil, payload.origen, payload.destino>>

\* A failed call next to an entry another call has written.
C6_Witness ==
    /\ \E t \in Tasks : Done(t) /\ Called(t) /\ Val(res[t].outcome) \in UpstreamFailure
    /\ \E k \in Keys : ~IsNone(store[k])

\* The request is rejected by the validation of lines 737-741.
BadCoordinates(rq) ==
    \/ Len(rq.coordenadas) < 2
    \/ \E i \in 1..Len(rq.coordenadas) :
          \/ Len(rq.coordenadas[i]) < 2
          \/ rq.coordenadas[i][1][2] < -180 \/ rq.coordenadas[i][1][2] > 180
          \/ rq.coordenadas[i][2][2] < -90 \/ rq.coordenadas[i][2][2] > 90

BadProfile(rq) ==
    /\ ~IsNone(rq.profile)
    /\ StripLower(Val(rq.profile)) \notin {"", "foot-walking", "driving-car", "cycling-regular"}

\* C7: a call with invalid coordinates or a profile outside the allow-list
\* has failed with invalid_payload / invalid_profile without any call to the
\* cache factory, the cache, the lock or the upstream.
C7_ValidationFirst ==
    \A t \in Tasks :
        LET rq == Val(res[t].req)
        IN  (~IsNone(res[t].req) /\ (BadCoordinates(rq) \/ BadProfile(rq))) =>
                /\ Done(t)
                /\ res[t].outcome =
                     Some(Err(IF BadCoordinates(rq) THEN "invalid_payload" ELSE "invalid_profile"))
                /\ res[t].log = <<>>
                /\ IsNone(res[t].cache_key) /\ IsNone(res[t].lock_token)

C7_Witness ==
    \E a, b \in Tasks :
        /\ res[a].outcome = Some(Err("invalid_profile"))
        /\ res[b].outcome = Some(Err("invalid_payload"))

\* C8: for each key at most one caller is between its successful acquire_lock
\* and its own release_lock (or the lock's TTL expiry).
C8_OneHolder ==
    \A k \in Keys :
        Cardinality({c \in Clients : \E kt \in clientHeld[c] : kt[1] = k}) <= 1

\* C9: acquire_lock returns a token when the lock is free and returns None,
\* without suspending its caller, when the lock is held.
C9_TryLock ==
    lastCall.op = "acquire_lock" =>
        /\ ~lastCall.blocked
        /\ lastCall.was_held => IsNone(lastCall.ret)
        /\ ~lastCall.was_held => ~IsNone(lastCall.ret)

\* C10: release_lock leaves the lock as it is unless it is given the token of
\* the current holder, and then it frees the lock.
C10_ReleaseByTokenOnly ==
    lastCall.op = "release_lock" =>
        IF lastCall.was_held /\ lastCall.token = lastCall.holder_token
        THEN ~lastCall.is_held
        ELSE lastCall.is_held = lastCall.was_held

\* ------------------------------------------------------------ factory claims
FDone(c, op) == factory.calls[c].pc = "done" /\ factory.calls[c].op = op
Got(c) == FDone(c, "get_cache") /\ ~factory.calls[c].raised
Initialized == {i \in 1..Len(factory.objs) : factory.objs[i].initialized}

\* C11: as long as reset has not been called, at most one store has been
\* initialized, every get_cache that returned gave that store, which is the
\* instance, and a get_cache issued after another returned constructs nothing.
C11_Singleton ==
    factory.resets = 0 =>
        /\ Cardinality(Initialized) <= 1
        /\ \A c \in Callers :
              Got(c) => /\ ~IsNone(factory.calls[c].ret)
                        /\ factory.calls[c].ret = factory.instance
                        /\ Val(factory.calls[c].ret) \in Initialized
        /\ \A c, d \in Callers :
              (Got(c) /\ Got(d) /\ factory.calls[c].entered > factory.calls[d].finished)
                  => factory.calls[c].built = {}

\* Two first calls that overlapped have returned: one built the store, the
\* other waited for the lock and found the instance under it.
C11_Witness ==
    /\ factory.resets = 0
    /\ \E c, d \in Callers :
          /\ Got(c) /\ Got(d)
          /\ factory.calls[c].entered < factory.calls[d].entered
          /\ factory.calls[d].entered < factory.calls[c].finished
          /\ factory.calls[c].built /= {} /\ factory.calls[d].built = {}

FailedBuilds(c, kind) ==
    {i \in factory.calls[c].built : factory.objs[i].kind = kind /\ ~factory.objs[i].initialized}

\* C12: get_cache returns a Redis store only with REDIS_URL set and the
\* store initialized; without REDIS_URL no Redis store is ever constructed;
\* a failed Redis initialization does not make get_cache raise: it raises
\* only when the SQLite store it fell back to failed to initialize, and what
\* it returns is an initialized store.
C12_Selection ==
    /\ \A c \in Callers :
          Got(c) =>
            LET o == factory.objs[Val(factory.calls[c].ret)]
            IN  /\ o.initialized
                /\ o.kind = "redis" => factory.url
                /\ FailedBuilds(c, "redis") /= {} => o.kind = "sqlite"
    /\ ~factory.url => \A i \in 1..Len(factory.objs) : factory.objs[i].kind = "sqlite"
    /\ \A c \in Callers :
          (FDone(c, "get_cache") /\ factory.calls[c].raised) => FailedBuilds(c, "sqlite") /= {}

\* A get_cache whose Redis store failed to initialize returned a SQLite store.
C12_Witness ==
    \E c \in Callers :
        /\ Got(c) /\ FailedBuilds(c, "redis") /= {}
        /\ factory.objs[Val(factory.calls[c].ret)].kind = "sqlite"

\* C13: when reset returns or raises, _instance is None; the instance it
\* found has been closed unless close() raised; a get_cache issued after it
\* returns another, initialized store; reset without instance changes nothing.
C13_Reset ==
    /\ \A c \in Callers :
          FDone(c, "reset") =>
            /\ IsNone(factory.calls[c].after)
            /\ IsNone(factory.calls[c].obj) => ~factory.calls[c].raised
            /\ (~IsNone(factory.calls[c].obj) /\ ~factory.calls[c].raised)
                  => factory.objs[Val(factory.calls[c].obj)].closed
    /\ \A c, d \in Callers :
          (FDone(c, "reset") /\ ~IsNone(factory.calls[c].obj) /\ Got(d)
             /\ factory.calls[d].entered > factory.calls[c].finished)
          => /\ factory.calls[d].ret /= factory.calls[c].obj
             /\ Val(factory.calls[d].ret) \in Initialized
             /\ Val(factory.calls[d].ret) > Val(factory.calls[c].obj)

\* A reset whose close() raised, followed by a get_cache that has returned.
C13_Witness ==
    \E c, d \in Callers :
        /\ FDone(c, "reset") /\ ~IsNone(factory.calls[c].obj) /\ factory.calls[c].raised
        /\ Got(d) /\ factory.calls[d].entered > factory.calls[c].finished
        /\ factory.calls[d].built /= {}

\* ------------------------------------------------------------ TTL claims
\* min(override if present else default, configured max).
TtlExpected ==
    Min(IF IsNone(ttlCall.override_ttl) THEN ttlCall.default_ttl ELSE Val(ttlCall.override_ttl),
        ttlCall.max_ttl)

\* C14: the TTL given to set is min(override if present else default, max),
\* never above the maximum; without override and with a positive default
\* within the maximum it is the default; override 9999 under maximum 60
\* gives 60.
C14_TtlClamped ==
    /\ ttlCall.pc = "set" =>
          /\ ttlCall.set_ttl = Some(TtlExpected)
          /\ Val(ttlCall.set_ttl) <= ttlCall.max_ttl
    /\ (ttlCall.pc \in {"set", "skipped"} /\ IsNone(ttlCall.override_ttl)
           /\ 0 < ttlCall.default_ttl /\ ttlCall.default_ttl <= ttlCall.max_ttl)
          => ttlCall.set_ttl = Some(ttlCall.default_ttl)
    /\ (ttlCall.pc \in {"set", "skipped"} /\ ttlCall.override_ttl = Some(9999) /\ ttlCall.max_ttl = 60)
          => ttlCall.set_ttl = Some(60)

\* The case of test_cache_ttl_respected: default 10, maximum 60, override 9999.
C14_Witness ==
    /\ ttlCall.pc = "set"
    /\ ttlCall.default_ttl = 10 /\ ttlCall.max_ttl = 60 /\ ttlCall.override_ttl = Some(9999)

\* ------------------------------------------------------------ resolution claims
CacheOps == {"get", "acquire_lock", "wait_for_value", "set", "release_lock"}

\* The call passed validation and resolved its TTL to 0.
ZeroTtl(t) ==
    /\ res[t].pc /= "idle"
    /\ ~IsNone(res[t].sanitized_coords) /\ ~IsNone(res[t].normalized_profile)
    /\ res[t].ttl_seconds = 0

\* C15: a call whose TTL resolved to 0 makes no get, acquire_lock,
\* wait_for_value, set or release_lock, builds no key, and goes to the
\* upstream: with the provider configured it has requested it when it ends.
C15_ZeroTtlBypass ==
    \A t \in Tasks :
        ZeroTtl(t) =>
            /\ \A op \in CacheOps : ~Has(t, op)
            /\ IsNone(res[t].cache_key) /\ IsNone(res[t].lock_token)
            /\ res[t].pc \in {"upstream", "done"}
            /\ (Done(t) /\ orsConfigured) => Called(t)

\* A call with TTL 0 requested the upstream although the cache was available
\* and held an entry for its coordinates and profile.
C15_Witness ==
    \E t \in Tasks :
        /\ ZeroTtl(t) /\ Done(t) /\ Called(t) /\ res[t].cache
        /\ ~IsNone(store[_build_cache_key(Val(res[t].normalized_profile), Val(res[t].sanitized_coords))])

\* ------------------------------------------------------------ copy claims
\* C16: the dict a resolution returns (hit, waited-for value, fresh result)
\* has the content of the entry and is no object the cache keeps; after the
\* caller changed it, a later get of the key returns the entry as stored.
C16_ResultIsACopy ==
    /\ copies.pc = "returned" => copies.heap[Val(copies.result)] = copies.stored
    /\ (copies.pc \in {"returned", "mutated", "read"} /\ copies.kind = "object")
          => Val(copies.entry).obj /= Val(copies.result)
    /\ copies.pc = "read" => copies.later = Some(copies.stored)

\* A hit on a cache that keeps objects: the caller's dict was changed and the
\* entry read again.
C16_Witness ==
    /\ copies.pc = "read" /\ copies.kind = "object" /\ copies.path = "hit"
    /\ copies.heap[Val(copies.result)] /= copies.stored

\* ------------------------------------------------------------ resolution claims, continued
\* The call missed the cache, took the lock, and its upstream request and
\* normalization succeeded; no cache operation raised.
MissUnderLock(t) ==
    /\ Succeeded(t) /\ Called(t) /\ ~IsNone(res[t].lock_token) /\ Quiet(t)

\* C17: a call that missed the cache, took the lock and got its route did
\* get, acquire_lock, one upstream request, normalization, set and
\* release_lock in this order before returning; when it is about to release
\* the lock it has written the entry, and when it has returned it has
\* released its token.
C17_MissSequence ==
    \A t \in Tasks :
        /\ MissUnderLock(t) =>
              /\ res[t].log = <<"get_cache", "get", "acquire_lock", "upstream", "normalize",
                                "set", "release_lock">>
              /\ redisLock[Val(res[t].cache_key)] /= res[t].lock_token
        /\ (res[t].pc = "release" /\ Quiet(t)) =>
              /\ res[t].log = <<"get_cache", "get", "acquire_lock", "upstream", "normalize", "set">>
              /\ expiries = 0 =>
                    /\ ~IsNone(Cache_get(store, Val(res[t].cache_key)))
                    /\ LockHeld(Val(res[t].cache_key))

C17_Witness == \E t \in Tasks : MissUnderLock(t)

\* The call's cache.get returned a value.
CacheHit(t) == ~IsNone(res[t].cached_payload) /\ ~Has(t, "wait_for_value")

\* C18: a call whose cache.get returned a value has returned that value, a
\* route for its own key, having made no acquire_lock, no upstream request
\* and no set.
C18_HitOnly ==
    \A t \in Tasks :
        CacheHit(t) =>
            LET payload == Val(res[t].cached_payload)
            IN  /\ Done(t)
                /\ res[t].outcome = Some(Ok(payload))
                /\ res[t].cache_key = Some(<<"coords", payload.perfil, payload.origen, payload.destino>>)
                /\ res[t].log = <<"get_cache", "get">>
                /\ IsNone(res[t].lock_token) /\ IsNone(res[t].resultado)

C18_Witness == \E t \in Tasks : CacheHit(t) /\ Done(t)

\* Call a wrote the entry and returned; call b, the only other call, was
\* issued afterwards for the same key, missed the cache and returned a
\* route; no cache operation raised.
MissAfterWrite(a, b) ==
    /\ started = 2 /\ faults = 0
    /\ Succeeded(a) /\ Succeeded(b)
    /\ res[a].id \in res[b].before
    /\ SameKey(a, b)
    /\ Quiet(a) /\ Quiet(b)
    /\ Has(a, "set") /\ Has(b, "acquire_lock")

\* C19: an entry whose TTL has elapsed is absent for get: Redis has evicted
\* it, SQLite still has the row, returns None for it and deletes it on that
\* read.  A call that misses for this reason after an earlier call wrote the
\* entry makes one upstream request (two in total) and stores its result.
C19_Expiry ==
    /\ \A k \in Keys :
          (~IsNone(store[k]) /\ Val(store[k]).expired) =>
              /\ backend = "sqlite"
              /\ IsNone(Cache_get(store, k))
              /\ IsNone(Cache_get_effect(store, k)[k])
    /\ \A a, b \in Tasks :
          MissAfterWrite(a, b) =>
              /\ expiries >= 1
              /\ Called(b) /\ upstreamCalls = 2
              /\ Has(b, "set")
              /\ expiries = 1 => Cache_get(store, Val(res[b].cache_key)) = res[b].resultado

\* On SQLite: the second call missed the expired entry, requested the route
\* again and stored it.
C19_Witness ==
    /\ backend = "sqlite"
    /\ \E a, b \in Tasks : MissAfterWrite(a, b) /\ Called(b)

\* ------------------------------------------------------------ upstream client
\* The call has ended with an exception and every request it sent was
\* answered with a 5xx status.
AllServerErrors ==
    /\ client.pc = "raised"
    /\ \A i \in 1 .. Len(client.outcomes) :
          client.outcomes[i].kind = "response" /\ client.outcomes[i].status \in 500 .. 599

Increasing(seq) == \A i, j \in 1 .. Len(seq) : i < j => seq[i] < seq[j]

ServerErrorRaised ==
    /\ Len(client.sleeps) = Len(client.outcomes) - 1
    /\ client.error = Some(HTTPException(502, "ors_unavailable", None))

\* As stated: max_retries + 1 requests and strictly increasing delays for
\* every setting.
C20_AsStated ==
    AllServerErrors =>
        /\ Len(client.outcomes) = client.ORS_MAX_RETRIES + 1
        /\ Increasing(client.sleeps)
        /\ ServerErrorRaised

\* C20: when every attempt is answered 5xx the client sends
\* max(1, max_retries + 1) requests, sleeps once between consecutive requests
\* and raises 502 ors_unavailable.  With a positive backoff factor the delay
\* after attempt k is factor * 2^(k-1), strictly increasing; with a factor of
\* zero or less every delay is one second.
C20_ServerErrorRetries ==
    AllServerErrors =>
        /\ Len(client.outcomes) = Max(1, client.ORS_MAX_RETRIES + 1)
        /\ ServerErrorRaised
        /\ client.ORS_BACKOFF_FACTOR > 0 =>
              /\ \A k \in 1 .. Len(client.sleeps) :
                    client.sleeps[k] = client.ORS_BACKOFF_FACTOR * 2^(k - 1)
              /\ Increasing(client.sleeps)
        /\ client.ORS_BACKOFF_FACTOR <= 0 =>
              \A k \in 1 .. Len(client.sleeps) : client.sleeps[k] = OneSecond

\* Three requests answered 5xx with the default factor: two growing delays.
C20_Witness ==
    /\ AllServerErrors
    /\ client.ORS_BACKOFF_FACTOR = 3
    /\ Len(client.outcomes) = 3
    /\ client.sleeps = <<3, 6>>

\* The step sends the request of the current attempt and client.post raises
\* a timeout or another request error.
NetworkFailureStep ==
    /\ client.pc = "post"
    /\ Len(client'.outcomes) = Len(client.outcomes) + 1
    /\ client'.outcomes[Len(client'.outcomes)].kind \in {"timeout", "connection_error"}

\* What a step of the loop does on a network failure and after a sleep.
NetworkRetryStep ==
    /\ NetworkFailureStep =>
          LET k == client.attempt
              kind == client'.outcomes[Len(client'.outcomes)].kind
              delay == Max(0, client.ORS_BACKOFF_FACTOR) * 2^(k - 1)
          IN  /\ k = Len(client'.outcomes)
              /\ k < Max(1, client.ORS_MAX_RETRIES + 1) =>
                    IF delay > 0
                    THEN /\ client'.pc = "sleep"
                         /\ client'.sleeps = Append(client.sleeps, delay)
                         /\ client'.attempt = k
                    ELSE /\ client'.pc = "post"
                         /\ client'.sleeps = client.sleeps
                         /\ client'.attempt = k + 1
              /\ k >= Max(1, client.ORS_MAX_RETRIES + 1) =>
                    /\ client'.pc = "raised"
                    /\ client'.error =
                          Some(IF kind = "timeout"
                               THEN HTTPException(504, "ors_timeout", Some(Len(client'.outcomes)))
                               ELSE HTTPException(502, "ors_connection_error",
                                                  Some(Len(client'.outcomes))))
    /\ client.pc = "sleep" =>
          /\ client'.pc = "post"
          /\ client'.attempt = client.attempt + 1
          /\ client'.outcomes = client.outcomes

\* C21: a timeout or connection failure at attempt k with attempts remaining
\* is followed by a sleep of backoff_factor * 2^(k-1) (no sleep when that is
\* zero) and by attempt k+1; with none remaining the call raises 504
\* ors_timeout or 502 ors_connection_error, whose attempts field is the
\* number of requests sent.
C21_NetworkRetry == [][NetworkRetryStep]_vars

\* Three requests, a timeout, a connection failure and a timeout, with the
\* default factor: two sleeps and 504 with attempts 3.
C21_Witness ==
    /\ client.pc = "raised"
    /\ client.outcomes = <<TimedOut, ConnectionFailed, TimedOut>>
    /\ client.sleeps = <<3, 6>>
    /\ client.error = Some(HTTPException(504, "ors_timeout", Some(3)))

\* The call has ended with an exception and every request it sent was
\* answered 429.
AllRateLimited ==
    /\ client.pc = "raised"
    /\ \A i \in 1 .. Len(client.outcomes) : client.outcomes[i] = Response(429)

RateLimitRaised ==
    /\ Len(client.sleeps) = Len(client.outcomes) - 1
    /\ client.error = Some(HTTPException(503, "ors_rate_limited", None))

\* As stated: the delay before attempt k+1 is backoff_factor * 2^(k-1) for
\* every factor, and max_retries + 1 requests are sent.
C22_AsStated ==
    AllRateLimited =>
        /\ Len(client.outcomes) = client.ORS_MAX_RETRIES + 1
        /\ RateLimitRaised
        /\ \A k \in 1 .. Len(client.sleeps) :
              client.sleeps[k] = Max(0, client.ORS_BACKOFF_FACTOR) * 2^(k - 1)

\* C22: with a positive backoff factor every retry, whatever failed (timeout,
\* connection, 429, 5xx), sleeps factor * 2^(k-1) after attempt k; with a
\* factor of zero or less a 429 sleeps one second.  After
\* max(1, max_retries + 1) requests all answered 429 the call raises 503
\* ors_rate_limited.
C22_RateLimitRetries ==
    /\ client.ORS_BACKOFF_FACTOR > 0 =>
          \A k \in 1 .. Len(client.sleeps) :
              client.sleeps[k] = client.ORS_BACKOFF_FACTOR * 2^(k - 1)
    /\ AllRateLimited =>
          /\ Len(client.outcomes) = Max(1, client.ORS_MAX_RETRIES + 1)
          /\ RateLimitRaised
          /\ client.ORS_BACKOFF_FACTOR <= 0 =>
                \A k \in 1 .. Len(client.sleeps) : client.sleeps[k] = OneSecond

\* Three requests answered 429 with a factor of zero: two sleeps of a second.
C22_Witness ==
    /\ AllRateLimited
    /\ client.ORS_BACKOFF_FACTOR = 0
    /\ Len(client.outcomes) = 3
    /\ client.sleeps = <<OneSecond, OneSecond>>

\* The i-th request was answered with a status other than 200, 429 and 5xx.
RejectedAt(i) ==
    /\ client.outcomes[i].kind = "response"
    /\ client.outcomes[i].status \notin {200, 429} \cup 500 .. 599

\* C23: a response with status 400, 401, 403, 404 or any other status that
\* is not 200, 429 or 5xx is the last request of the call, whatever attempts
\* remain, and the call has raised 400, 500, 503, 404 and 502 respectively.
C23_NoRetryOnRejection ==
    \A i \in 1 .. Len(client.outcomes) :
        RejectedAt(i) =>
            LET status == client.outcomes[i].status
            IN  /\ i = Len(client.outcomes)
                /\ client.pc = "raised"
                /\ client.attempt = i
                /\ ~IsNone(client.error)
                /\ Val(client.error).status_code =
                      CASE status = 400 -> 400
                        [] status = 401 -> 500
                        [] status = 403 -> 503
                        [] status = 404 -> 404
                        [] OTHER -> 502
                /\ Val(client.error).code =
                      CASE status = 400 -> "ors_invalid_request"
                        [] status = 401 -> "ors_invalid_key"
                        [] status = 403 -> "ors_forbidden"
                        [] status = 404 -> "ors_not_found"
                        [] OTHER -> "ors_error"

\* A 404 on the second of three attempts ends the call.
C23_Witness ==
    /\ client.ORS_MAX_RETRIES = 2
    /\ client.outcomes = <<Response(503), Response(404)>>
    /\ client.pc = "raised"
    /\ Val(client.error).status_code = 404

C25_StructuredDetail ==
    lookup.pc = "raised" =>
        /\ ~IsNone(Val(lookup.error).detail.code)
        /\ ~IsNone(Val(lookup.error).detail.message)

\* ------------------------------------------------------------ lock registry
\* Task u stands between task t and the lock of t's key: it holds it or waits
\* for it.
OnSameKey(t, u) ==
    /\ u /= t
    /\ registry.key[u] = registry.key[t]
    /\ registry.pc[u] \in {"waiting", "holding"}

\* C26: the registry guard is held only by a task that looks its lock up or
\* creates it, never by one that waits for or holds a key's lock; a task
\* suspended in acquire_lock is queued on the lock of its own key, behind a
\* task of that key or already woken by the release of one; and a task
\* about to take a key that no other task holds or waits for finds its lock
\* free, whatever is held on the other key.
C26_KeysIndependent ==
    \A t \in RegistryTasks :
        /\ registry.guard = Some(t) => registry.pc[t] = "lookup"
        /\ registry.pc[t] \in {"acquire", "waiting", "holding", "released"} =>
              registry.guard /= Some(t)
        /\ registry.pc[t] = "waiting" =>
              /\ \/ \E u \in RegistryTasks : OnSameKey(t, u)
                 \/ Val(registry.locks[registry.key[t]]).woken
              /\ \E i \in 1 .. Len(Val(registry.locks[registry.key[t]]).waiters) :
                    Val(registry.locks[registry.key[t]]).waiters[i] = t
        /\ (registry.pc[t] = "acquire" /\ ~\E u \in RegistryTasks : OnSameKey(t, u)) =>
              LET lock == Val(registry.locks[registry.key[t]])
              IN  ~lock.locked /\ lock.waiters = <<>>
        /\ registry.pc[t] = "holding" => Val(registry.locks[registry.key[t]]).locked

\* Both keys are held at once, by two tasks, while a third task waits for
\* one of them and the guard is free.
C26_Witness ==
    /\ IsNone(registry.guard)
    /\ \E t, u, w \in RegistryTasks :
          /\ registry.key[t] = "A" /\ registry.pc[t] = "holding"
          /\ registry.key[u] = "B" /\ registry.pc[u] = "holding"
          /\ registry.key[w] = "B" /\ registry.pc[w] = "waiting"

\* ------------------------------------------------------------ profile
\* The operation has answered a request with valid coordinates.
ProfileExamined == endpoint.pc = "answered" /\ ~IsNone(_validate_coordinates(endpoint.coordenadas))

\* The profile of the request, trimmed and lower-cased; "" when absent.
Lowered == IF IsNone(endpoint.profile) THEN "" ELSE StripLower(Val(endpoint.profile))

Allowed(candidate) == \E i \in 1 .. Len(endpoint.op_allowed) : endpoint.op_allowed[i] = candidate

\* C27: a profile that trimmed and lower-cased is a member of the allow-list
\* resolves to that member, so "DRIVING-CAR" and "driving-car" resolve to
\* the same profile and cache key; an absent or blank profile resolves to
\* the first allowed profile; any other value is answered 400 invalid_profile
\* with the allow-list and the value received, trimmed and lower-cased.
C27_ProfileCaseInsensitive ==
    ProfileExamined =>
        /\ Lowered = "" =>
              /\ endpoint.status_code = 200
              /\ endpoint.normalized_profile = Some(endpoint.op_allowed[1])
        /\ (Lowered /= "" /\ Allowed(Lowered)) =>
              /\ endpoint.status_code = 200
              /\ endpoint.normalized_profile = Some(Lowered)
        /\ (Lowered /= "" /\ ~Allowed(Lowered)) =>
              /\ endpoint.status_code = 400
              /\ IsNone(endpoint.normalized_profile) /\ IsNone(endpoint.cache_key)
              /\ endpoint.detail =
                    Some(ValidationDetail("invalid_profile", endpoint.op_allowed, Lowered))
        /\ endpoint.profile \in {Some("DRIVING-CAR"), Some("driving-car")} =>
              /\ endpoint.normalized_profile = Some("driving-car")
              /\ endpoint.cache_key = Some(<<"coords", "driving-car", <<-110, 29>>, <<-111, 30>> >>)

\* "DRIVING-CAR" resolved to "driving-car" with the allow-list of the settings.
C27_Witness ==
    /\ ProfileExamined
    /\ endpoint.profile = Some("DRIVING-CAR")
    /\ endpoint.op_allowed = ORS_ALLOWED_PROFILES
    /\ endpoint.normalized_profile = Some("driving-car")

\* C28: the operation is invoked with the normalized profile, and not at all
\* for a profile outside the allow-list.
C28_EndpointNormalizesFirst ==
    endpoint.invoked =>
        /\ Lowered = "" \/ Allowed(Lowered)
        /\ endpoint.op_profile = Some(IF Lowered = "" THEN endpoint.op_allowed[1] ELSE Lowered)

\* ------------------------------------------------------------ graph engine
\* The least weight of a path of at most k edges from one node to another in
\* the conexiones table; None when there is none.
RECURSIVE ShortestWithin(_, _, _, _)
ShortestWithin(conexiones, from, to, k) ==
    IF from = to THEN (IF from \in Nodos THEN Some(0) ELSE None)
    ELSE IF k = 0 \/ from \notin Nodos \/ to \notin Nodos THEN None
    ELSE LET via == {m \in Nodos \ {from} :
                        /\ ~IsNone(conexiones[<<from, m>>])
                        /\ ~IsNone(ShortestWithin(conexiones, m, to, k - 1))}
             weights == {Val(conexiones[<<from, m>>]) + Val(ShortestWithin(conexiones, m, to, k - 1)) :
                           m \in via}
         IN  IF weights = {} THEN None
             ELSE Some(CHOOSE w \in weights : \A x \in weights : w <= x)

Shortest == ShortestWithin(engine.conexiones, engine.inicio, engine.destino, Cardinality(Nodos))

RECURSIVE PathWeight(_, _, _)
PathWeight(conexiones, ruta, i) ==
    IF i >= Len(ruta) THEN 0
    ELSE Val(conexiones[<<ruta[i], ruta[i + 1]>>]) + PathWeight(conexiones, ruta, i + 1)

\* dijkstra has returned.
Routed == engine.pc \in {"returned", "done"}

Example ==
    [par \in Pares |->
        CASE par = <<1, 2>> -> Some(5) [] par = <<2, 3>> -> Some(5) [] par = <<1, 3>> -> Some(20)
          [] OTHER -> None]

\* C29: when the destination can be reached from the source, the route
\* dijkstra returns starts at the source, ends at the destination, follows
\* conexiones, and its weight is the least of all paths; edges 1->2 (5),
\* 2->3 (5), 1->3 (20) give <<1, 2, 3>> of weight 10.  The call never raises
\* in this case.
C29_ShortestPath ==
    ~IsNone(Shortest) =>
        /\ engine.pc /= "raised"
        /\ Routed =>
              LET ruta == Val(engine.ruta)
              IN  /\ ruta /= <<>>
                  /\ ruta[1] = engine.inicio /\ ruta[Len(ruta)] = engine.destino
                  /\ \A i \in 1 .. Len(ruta) - 1 : ~IsNone(engine.conexiones[<<ruta[i], ruta[i + 1]>>])
                  /\ PathWeight(engine.conexiones, ruta, 1) = Val(Shortest)
                  /\ (engine.conexiones = Example /\ engine.inicio = 1 /\ engine.destino = 3) =>
                        ruta = <<1, 2, 3>> /\ Val(Shortest) = 10

\* The graph of the example: <<1, 2, 3>> is returned, not the direct edge.
C29_Witness ==
    /\ engine.pc = "done"
    /\ engine.conexiones = Example /\ engine.inicio = 1 /\ engine.destino = 3
    /\ engine.ruta = Some(<<1, 2, 3>>)

\* C30: for a source and a destination without directed path between them
\* the call does not raise and the route is empty.
C30_EmptyWhenUnreachable ==
    (IsNone(Shortest) /\ engine.pc \in {"returned", "done", "raised"}) =>
        /\ engine.pc /= "raised"
        /\ engine.ruta = Some(<<>>)

\* ------------------------------------------------------------ id-based variant
\* The content of the entry kept under the coordinate key.
EntryContent ==
    IF overlay.kind = "bytes" THEN _deserialize_payload(Val(overlay.entry).raw)
    ELSE overlay.heap[Val(overlay.entry).obj]

Unlabelled(content) ==
    /\ IsNone(content.origen.id) /\ IsNone(content.origen.nombre)
    /\ IsNone(content.destino.id) /\ IsNone(content.destino.nombre)

\* C31: obtener_ruta_ors returns the delegated route with the ids and names
\* of the two rows on origen and destino; the entry under the coordinate key
\* carries no id and no name at any time, and a later resolution that hits
\* the key gets the route without them.
C31_OverlayOnACopy ==
    /\ ~IsNone(overlay.entry) => Unlabelled(EntryContent)
    /\ overlay.pc \in {"returned", "read"} =>
          LET resultado == overlay.heap[Val(overlay.result)]
          IN  /\ resultado.ruta = overlay.route
              /\ resultado.origen = Labelled(overlay.desde_id)
              /\ resultado.destino = Labelled(overlay.hacia_id)
    /\ overlay.pc = "read" =>
          overlay.later = Some(Resultado31(overlay.route, overlay.desde_id, overlay.hacia_id))

\* A fresh computation on a cache that keeps the dict it was given: the
\* result is labelled, the later hit is not.
C31_Witness ==
    /\ overlay.pc = "read" /\ overlay.kind = "object" /\ overlay.path = "fresh"
    /\ overlay.heap[Val(overlay.result)].origen.id = Some(overlay.desde_id)
    /\ Unlabelled(Val(overlay.later))

\* ------------------------------------------------------------ wait_for_value
\* The gets before the last one all missed.
MissesBefore(n) == \A i \in 1 .. n : IsNone(waiter.polled[i])

\* C32: wait_for_value calls get at most attempts times (never for
\* attempts <= 0); a returned value is what the first get that found one
\* returned, and that get is the last; absent is returned after exactly
\* attempts misses, each followed by one sleep of the delay.
C32_WaitForValue ==
    LET gets == Len(waiter.polled)
    IN  /\ gets <= Max(0, waiter.attempts)
        /\ (waiter.pc = "returned" /\ ~IsNone(waiter.result)) =>
              /\ gets >= 1 /\ waiter.polled[gets] = waiter.result
              /\ MissesBefore(gets - 1)
              /\ waiter.slept = (gets - 1) * waiter.delay
        /\ (waiter.pc = "returned" /\ IsNone(waiter.result)) =>
              /\ gets = Max(0, waiter.attempts)
              /\ MissesBefore(gets)
              /\ waiter.slept = gets * waiter.delay

\* Two misses, then a value at the last attempt.
C32_Witness ==
    /\ waiter.pc = "returned" /\ waiter.attempts = MaxAttempts
    /\ waiter.polled = <<None, None, Some(1)>>

\* ------------------------------------------------------------ response normalization
\* The call returned a dict.
Normalized == parse.pc = "done" /\ parse.outcome.kind = "returned"

\* C33: the list of normalized steps never has more than MAX_ROUTE_STEPS
\* entries; once it has that many the call returns it whatever the steps
\* behind hold; steps_count is the length of the list returned and
\* current_step_index is 0.
C33_StepCap ==
    /\ Len(parse.parsed_steps) <= MAX_ROUTE_STEPS
    /\ (parse.pc = "done" /\ Len(parse.parsed_steps) = MAX_ROUTE_STEPS) =>
          /\ Normalized
          /\ Val(parse.outcome.resultado).instrucciones = parse.parsed_steps
    /\ Normalized =>
          LET resultado == Val(parse.outcome.resultado)
          IN  /\ Len(resultado.instrucciones) <= MAX_ROUTE_STEPS
              /\ resultado.steps_count = Len(resultado.instrucciones)
              /\ resultado.current_step_index = 0

\* A list of more steps than the cap, the first one behind the cap with an
\* infinite distance: the first MAX_ROUTE_STEPS are returned.
C33_Witness ==
    /\ Normalized
    /\ Len(parse.raw_steps) > MAX_ROUTE_STEPS
    /\ parse.raw_steps[MAX_ROUTE_STEPS + 1].dict
    /\ parse.raw_steps[MAX_ROUTE_STEPS + 1].distance = <<"inf", 0>>
    /\ Val(parse.outcome.resultado).steps_count = MAX_ROUTE_STEPS

\* C34: every step of the upstream list that is looked at is normalized,
\* to an order index >= 0, a text of at most MAX_STEP_TEXT_LENGTH characters
\* and distance_m, duration_s >= 0, whatever its distance and duration hold.
C34_StepBounds ==
    /\ \A k \in 1 .. Len(parse.parsed_steps) :
          LET step == parse.parsed_steps[k]
          IN  /\ step.orden >= 0
              /\ Len(step.texto) <= MAX_STEP_TEXT_LENGTH
              /\ step.distance_m >= 0
              /\ step.duration_s >= 0
    /\ ~(parse.pc = "done" /\ parse.raw_steps /= <<>> /\ parse.outcome.kind = "uncaught")

\* The points of the three geometries that are supported.
TwoPoints == <<[lat |-> 29, lng |-> -110], [lat |-> 30, lng |-> -111]>>

\* C35: a first route with a supported geometry and a summary but without
\* step data gives an empty step list, steps_count 0, and the points,
\* distance and duration of the route; with a supported geometry and no
\* summary the call raises "Resumen de ruta no disponible"; with a geometry
\* that is neither a str nor a dict with coordinates it raises "Formato de
\* geometría no soportado".
C35_StepsOptional ==
    parse.pc = "done" =>
        LET route == parse.route
            supported == route.geometry.kind \in {"polyline", "geojson"}
        IN  /\ (supported /\ route.summary = GoodSummary /\ route.segments \in Stepless) =>
                  /\ Normalized
                  /\ Val(parse.outcome.resultado) =
                        [ruta |-> TwoPoints, distancia_m |-> 80, duracion_s |-> 40,
                         instrucciones |-> <<>>, steps_count |-> 0, current_step_index |-> 0]
            /\ (supported /\ route.summary.kind = "missing") =>
                  parse.outcome = Http(500, "Resumen de ruta no disponible")
            /\ route.geometry.kind = "other" =>
                  parse.outcome = Http(500, "Formato de geometría no soportado")

\* The body of tests/test_ors_steps.py: segments [{}].
C35_Witness ==
    /\ Normalized
    /\ parse.route = [geometry |-> GoodGeometry, summary |-> GoodSummary, segments |-> Segments(None)]
    /\ Val(parse.outcome.resultado).steps_count = 0
    /\ Val(parse.outcome.resultado).ruta /= <<>>

\* ------------------------------------------------------------ termination
\* The call of task t is under way.
Running(t) == res[t].pc \notin {"idle", "done"}

\* C36: every resolution that was started returns a result or an error.
C36_EveryResolutionEnds == \A t \in Tasks : Running(t) ~> Done(t)

\* ------------------------------------------------------------ release
\* The positions of the log of task t at which op was called.
Calls(t, op) == {i \in 1 .. Len(res[t].log) : res[t].log[i] = op}

\* C37: a call makes at most one release_lock, after its own acquire_lock
\* returned the token it still has (on Redis no other call has that token);
\* a call that is about to release has a token; a call that went on without
\* lock or got a cached or waited-for value makes none.
C37_ReleaseOwnTokenOnce ==
    \A t \in Tasks :
        /\ Cardinality(Calls(t, "release_lock")) <= 1
        /\ res[t].pc = "release" => ~IsNone(res[t].lock_token)
        /\ Has(t, "release_lock") =>
              /\ ~IsNone(res[t].lock_token)
              /\ \E i \in Calls(t, "acquire_lock") : \A j \in Calls(t, "release_lock") : i < j
              /\ "acquire_lock" \notin res[t].faulted
        /\ (backend = "redis" /\ ~IsNone(res[t].lock_token)) =>
              /\ Val(res[t].lock_token) <= nextToken
              /\ \A u \in Tasks \ {t} : res[u].lock_token /= res[t].lock_token
        /\ (res[t].fell_through \/ ~IsNone(res[t].cached_payload) \/ Has(t, "wait_for_value")) =>
              ~Has(t, "release_lock")

\* One call released its lock; another one got the cached or the waited-for
\* value, or went on without lock, and returned without a release.
C37_Witness ==
    \E t, u \in Tasks :
        /\ Succeeded(t) /\ Has(t, "release_lock")
        /\ Succeeded(u) /\ ~Has(u, "release_lock")
        /\ res[u].fell_through \/ ~IsNone(res[u].cached_payload)

\* ------------------------------------------------------------ retry budget
Classified ==
    {"ors_timeout", "ors_connection_error", "ors_invalid_json", "ors_invalid_request",
     "ors_invalid_key", "ors_forbidden", "ors_rate_limited", "ors_not_found", "ors_unavailable",
     "ors_error"}

\* C38: whatever the requests meet, a call never sends more than
\* max(1, ORS_MAX_RETRIES + 1) of them, failures of every kind counted
\* together; it is never past its last attempt without having returned the
\* body or raised, every return carries the body and every exception raised
\* has one of the codes of the call.
C38_SharedBudget ==
    LET budget == IF client.ORS_MAX_RETRIES + 1 > 1 THEN client.ORS_MAX_RETRIES + 1 ELSE 1
    IN  /\ Len(client.outcomes) <= budget
        /\ client.pc = "post" => client.attempt = Len(client.outcomes) + 1 /\ client.attempt <= budget
        /\ client.pc = "sleep" => client.attempt = Len(client.outcomes) /\ client.attempt < budget
        /\ client.pc \in {"post", "sleep", "returned", "raised"}
        /\ client.pc = "returned" <=> ~IsNone(client.result)
        /\ client.pc = "raised" <=> ~IsNone(client.error)
        /\ client.pc = "raised" => Val(client.error).code \in Classified

\* Three requests that met a timeout, a 429 and a 500: the third failure
\* is raised.
C38_Witness ==
    /\ client.pc = "raised"
    /\ client.ORS_MAX_RETRIES = 2
    /\ client.outcomes = <<TimedOut, Response(429), Response(500)>>
    /\ Val(client.error).code = "ors_unavailable"

\* ------------------------------------------------------------ factory and reset
\* The step in which a get_cache call of c returns a store: the store is
\* none whose close() a reset has started.
ReturnsOpenStore ==
    \A c \in Callers :
        LET call == factory'.calls[c]
        IN  (/\ call.finished /= factory.calls[c].finished
             /\ call.op = "get_cache"
             /\ ~IsNone(call.ret))
            => ~factory'.objs[Val(call.ret)].closing

\* C39: get_cache never returns a store on which close() has been started.
C39_NeverReturnsClosing == [][ReturnsOpenStore]_vars

\* ------------------------------------------------------------ graph endpoint
\* C40: when obtener_ruta returned an empty path the request is answered
\* 404 "No se encontró ruta".
C40_EmptyPathIs404 ==
    (calc.pc = "responded" /\ engine.pc = "done" /\ engine.ruta = Some(<<>>)) =>
        /\ calc.status_code = 404
        /\ calc.detail = "No se encontró ruta"

====
